---- MODULE Spec2Model ----
(***************************************************************************)
(* The asynchronous recommendation-job pipeline of the handler service:    *)
(* the upload store (routes/upload.js), the job store, the history and the *)
(* background task that POST /recommendations/generate starts              *)
(* (routes/recommendations.js, latest variant).                            *)
(*                                                                         *)
(* One step of the model is one turn of the Node.js event loop: a request  *)
(* handler from its first statement to its first await, or a background    *)
(* task from the resumption of an await to its next await or its end.      *)
(***************************************************************************)
EXTENDS Integers, Sequences, FiniteSets, TLC

\* ------------------------------------------------------------------------
\* Bounds of the model
\* ------------------------------------------------------------------------
MaxJobs == 2
MaxFiles == 1
MaxTime == 2

JobIds == 1..MaxJobs
FileIds == 1..MaxFiles

\* ------------------------------------------------------------------------
\* JavaScript values.  Every value is a record tagged by t, so that values of
\* different kinds can be compared.
\* ------------------------------------------------------------------------
Undefined == [t |-> "undefined"]
Null == [t |-> "null"]
Str(s) == [t |-> "string", s |-> s]
Num(n) == [t |-> "number", n |-> n]
Arr(items) == [t |-> "array", items |-> items]
Ref(f) == [t |-> "ref", f |-> f]

\* ToBoolean of the values the code tests with `x ? :`, `!x`, `a && b`, `a || b`
Truthy(v) ==
  CASE v.t = "undefined" -> FALSE
    [] v.t = "null" -> FALSE
    [] v.t = "string" -> v.s # ""
    [] v.t = "number" -> v.n # 0
    [] v.t = "text" -> v.toks # <<>>
    [] OTHER -> TRUE

\* a || b
Or(a, b) == IF Truthy(a) THEN a ELSE b

\* ------------------------------------------------------------------------
\* The filters form field and JSON.parse of it
\* ------------------------------------------------------------------------
FiltersObj(cardTypes, rewardTypes, annualFeeRange, additionalRequirements) ==
  [t |-> "object", cardTypes |-> cardTypes, rewardTypes |-> rewardTypes,
   annualFeeRange |-> annualFeeRange,
   additionalRequirements |-> additionalRequirements]

EmptyFilters == FiltersObj(Undefined, Undefined, Undefined, Undefined)

\* The texts a client sends in the filters field.  Undefined: field omitted.
FilterTexts ==
  { Undefined,
    Str("{bad json"),
    Str("null"),
    Str("{\"cardTypes\":[\"VISA\"],\"annualFeeRange\":\"0-100\"}") }

\* JSON.parse of a filters text: [throws |-> TRUE] on a SyntaxError, else the
\* decoded value.
JSONParseFilters(text) ==
  CASE text.s = "null" -> [throws |-> FALSE, value |-> Null]
    [] text.s = "{\"cardTypes\":[\"VISA\"],\"annualFeeRange\":\"0-100\"}" ->
         [throws |-> FALSE,
          value |-> FiltersObj(Arr(<<"VISA">>), Undefined, Str("0-100"), Undefined)]
    [] text.s = "{\"cardTypes\":\"VISA\"}" ->
         [throws |-> FALSE,
          value |-> FiltersObj(Str("VISA"), Undefined, Undefined, Undefined)]
    [] text.s = "7" -> [throws |-> FALSE, value |-> Num(7)]
    [] text.s = "\"VISA\"" -> [throws |-> FALSE, value |-> Str("VISA")]
    [] text.s = "{}" -> [throws |-> FALSE, value |-> EmptyFilters]
    [] text.s = "{\"cardTypes\":[]}" ->
         [throws |-> FALSE,
          value |-> FiltersObj(Arr(<<>>), Undefined, Undefined, Undefined)]
    [] text.s = "{\"cardTypes\":[\"VISA\",\"Mastercard\"],\"rewardTypes\":[\"Cashback\"]}" ->
         [throws |-> FALSE,
          value |-> FiltersObj(Arr(<<"VISA", "Mastercard">>), Arr(<<"Cashback">>),
                               Undefined, Undefined)]
    [] text.s = "{\"cardTypes\":null,\"annualFeeRange\":\"\"}" ->
         [throws |-> FALSE,
          value |-> FiltersObj(Null, Undefined, Str(""), Undefined)]
    [] text.s = "{\"cardTypes\":5,\"additionalRequirements\":\"no foreign fee\"}" ->
         [throws |-> FALSE,
          value |-> FiltersObj(Num(5), Undefined, Undefined, Str("no foreign fee"))]
    [] text.s = "{\"rewardTypes\":\"Cashback\"}" ->
         [throws |-> FALSE,
          value |-> FiltersObj(Undefined, Str("Cashback"), Undefined, Undefined)]
    [] text.s = "{\"cardTypes\":[\"VISA\"],\"rewardTypes\":\"Cashback\"}" ->
         [throws |-> FALSE,
          value |-> FiltersObj(Arr(<<"VISA">>), Str("Cashback"), Undefined, Undefined)]
    [] text.s = "{\"rewardTypes\":[],\"annualFeeRange\":100}" ->
         [throws |-> FALSE,
          value |-> FiltersObj(Undefined, Arr(<<>>), Num(100), Undefined)]
    [] OTHER -> [throws |-> TRUE, value |-> Undefined]

\* The catch block leaves filters without a value.
ParseFilters_NoFallback(text) ==
  IF ~Truthy(text) THEN EmptyFilters
  ELSE IF JSONParseFilters(text).throws THEN Null
  ELSE JSONParseFilters(text).value

\* generate, lines 261-268: let filters = {}; if (req.body.filters) { try
\* { filters = JSON.parse(...) } catch { filters = {} } }
ParseFilters(text) ==
  IF ~Truthy(text) THEN EmptyFilters
  ELSE IF JSONParseFilters(text).throws THEN EmptyFilters
  ELSE JSONParseFilters(text).value

\* ------------------------------------------------------------------------
\* buildRecommendationPrompt
\* ------------------------------------------------------------------------
\* filters.<field>: a TypeError when filters is null or undefined, undefined
\* when filters is a primitive or lacks the field.
HasProps(v) == v.t \notin {"null", "undefined"}
CardTypesOf(filters) == IF filters.t = "object" THEN filters.cardTypes ELSE Undefined
RewardTypesOf(filters) == IF filters.t = "object" THEN filters.rewardTypes ELSE Undefined
FeeRangeOf(filters) == IF filters.t = "object" THEN filters.annualFeeRange ELSE Undefined
ExtrasOf(filters) ==
  IF filters.t = "object" THEN filters.additionalRequirements ELSE Undefined

\* v.length > 0 (undefined > 0 is false)
LengthPositive(v) ==
  CASE v.t = "array" -> Len(v.items) > 0
    [] v.t = "string" -> v.s # ""
    [] OTHER -> FALSE

\* `v && v.length > 0 ? v.join(', ') : none`: the list line is chosen when v is
\* truthy with a positive length; join exists on arrays only.
ListChosen(v) == Truthy(v) /\ LengthPositive(v)
JoinThrows(v) == ListChosen(v) /\ v.t # "array"

BuildThrows(filters) ==
  \/ ~HasProps(filters)
  \/ JoinThrows(CardTypesOf(filters))
  \/ JoinThrows(RewardTypesOf(filters))

\* The network line is chosen without the test of the length: an empty list
\* is written as a mandatory network.
buildRecommendationPrompt_NoLengthCheck(filters, ocrText) ==
  [ summaryInstruction |->
      IF Truthy(ocrText) THEN "Based on your uploaded statement"
      ELSE "Since no statement was uploaded",
    network |->
      IF Truthy(CardTypesOf(filters))
      THEN [line |-> "Required Card Network MANDATORY", v |-> CardTypesOf(filters)]
      ELSE [line |-> "No card network restriction", v |-> Undefined],
    rewards |->
      IF ListChosen(RewardTypesOf(filters))
      THEN [line |-> "Desired Reward Types IMPORTANT", v |-> RewardTypesOf(filters)]
      ELSE [line |-> "No reward type preference", v |-> Undefined],
    fee |->
      IF Truthy(FeeRangeOf(filters))
      THEN [line |-> "Annual Fee Range MANDATORY", v |-> FeeRangeOf(filters)]
      ELSE [line |-> "No annual fee preference", v |-> Undefined],
    extras |->
      IF Truthy(ExtrasOf(filters))
      THEN [line |-> "Additional Requirements MUST be considered", v |-> ExtrasOf(filters)]
      ELSE [line |-> "", v |-> Undefined],
    spending |->
      IF Truthy(ocrText)
      THEN [line |-> "USER SPENDING PATTERNS (from uploaded statement)", v |-> ocrText]
      ELSE [line |-> "No spending data provided.", v |-> Undefined] ]

\* The parts of the prompt text that vary with the arguments.
buildRecommendationPrompt(filters, ocrText) ==
  [ summaryInstruction |->
      IF Truthy(ocrText) THEN "Based on your uploaded statement"
      ELSE "Since no statement was uploaded",
    network |->
      IF ListChosen(CardTypesOf(filters))
      THEN [line |-> "Required Card Network MANDATORY", v |-> CardTypesOf(filters)]
      ELSE [line |-> "No card network restriction", v |-> Undefined],
    rewards |->
      IF ListChosen(RewardTypesOf(filters))
      THEN [line |-> "Desired Reward Types IMPORTANT", v |-> RewardTypesOf(filters)]
      ELSE [line |-> "No reward type preference", v |-> Undefined],
    fee |->
      IF Truthy(FeeRangeOf(filters))
      THEN [line |-> "Annual Fee Range MANDATORY", v |-> FeeRangeOf(filters)]
      ELSE [line |-> "No annual fee preference", v |-> Undefined],
    extras |->
      IF Truthy(ExtrasOf(filters))
      THEN [line |-> "Additional Requirements MUST be considered", v |-> ExtrasOf(filters)]
      ELSE [line |-> "", v |-> Undefined],
    spending |->
      IF Truthy(ocrText)
      THEN [line |-> "USER SPENDING PATTERNS (from uploaded statement)", v |-> ocrText]
      ELSE [line |-> "No spending data provided.", v |-> Undefined] ]

\* ------------------------------------------------------------------------
\* The answer text of an inference reply, and JSON.parse of a part of it.
\* A text is a sequence of lexical tokens: the punctuation { } [ ] , the
\* member keys "summary:", "cards:", "name:", a non-empty string literal
\* "str", the empty string literal "empty", a number "num", and "prose"
\* (any run of characters that is neither JSON nor a brace or bracket).
\* ------------------------------------------------------------------------
Text(toks) == [t |-> "text", toks |-> toks]

KeyTokens == {"summary:", "cards:", "name:"}
KeyName(tok) ==
  CASE tok = "summary:" -> "summary"
    [] tok = "cards:" -> "cards"
    [] tok = "name:" -> "name"

\* A decoded JSON object: the members the code looks at, undefined when absent.
JsonObj(summary, cards, name) ==
  [t |-> "object", summary |-> summary, cards |-> cards, name |-> name]
EmptyObj == JsonObj(Undefined, Undefined, Undefined)

ParseFail == [ok |-> FALSE, v |-> Undefined, next |-> 0]
ParseOk(v, next) == [ok |-> TRUE, v |-> v, next |-> next]

RECURSIVE ParseValue(_, _)
RECURSIVE ParseMembers(_, _, _)
RECURSIVE ParseElements(_, _, _)

\* One JSON value starting at token i.
ParseValue(toks, i) ==
  IF i > Len(toks) THEN ParseFail
  ELSE CASE toks[i] = "{" ->
              IF i + 1 <= Len(toks) /\ toks[i + 1] = "}"
              THEN ParseOk(EmptyObj, i + 2)
              ELSE ParseMembers(toks, i + 1, EmptyObj)
         [] toks[i] = "[" ->
              IF i + 1 <= Len(toks) /\ toks[i + 1] = "]"
              THEN ParseOk(Arr(<<>>), i + 2)
              ELSE ParseElements(toks, i + 1, <<>>)
         [] toks[i] = "str" -> ParseOk(Str("text"), i + 1)
         [] toks[i] = "empty" -> ParseOk(Str(""), i + 1)
         [] toks[i] = "num" -> ParseOk(Num(7), i + 1)
         [] OTHER -> ParseFail

\* key value ( , key value )* }
ParseMembers(toks, i, obj) ==
  IF i > Len(toks) \/ toks[i] \notin KeyTokens THEN ParseFail
  ELSE LET r == ParseValue(toks, i + 1)
           o == [obj EXCEPT ![KeyName(toks[i])] = r.v]
       IN IF ~r.ok \/ r.next > Len(toks) THEN ParseFail
          ELSE IF toks[r.next] = "}" THEN ParseOk(o, r.next + 1)
          ELSE IF toks[r.next] = "," THEN ParseMembers(toks, r.next + 1, o)
          ELSE ParseFail

\* value ( , value )* ]
ParseElements(toks, i, acc) ==
  LET r == ParseValue(toks, i)
  IN IF ~r.ok \/ r.next > Len(toks) THEN ParseFail
     ELSE IF toks[r.next] = "]" THEN ParseOk(Arr(Append(acc, r.v)), r.next + 1)
     ELSE IF toks[r.next] = "," THEN ParseElements(toks, r.next + 1, Append(acc, r.v))
     ELSE ParseFail

\* JSON.parse(text): one value and nothing after it, else a SyntaxError.
JSONParse(toks) ==
  LET r == ParseValue(toks, 1)
  IN IF r.ok /\ r.next = Len(toks) + 1
     THEN [throws |-> FALSE, value |-> r.v]
     ELSE [throws |-> TRUE, value |-> Undefined]

\* text.match(/<open>[\s\S]*<close>/): the leftmost <open> that has a <close>
\* after it, up to the last <close>; <<>> stands for no match (null).
Positions(toks, tok) == {i \in 1..Len(toks) : toks[i] = tok}
Min(S) == CHOOSE x \in S : \A y \in S : x <= y
Max(S) == CHOOSE x \in S : \A y \in S : x >= y
\* A lazy scan: from the first opening delimiter to the first closing one
\* after it.
GreedyMatch_Lazy(toks, open, close) ==
  LET os == Positions(toks, open)
      cs == {c \in Positions(toks, close) : os # {} /\ c > Min(os)}
  IN IF os # {} /\ cs # {}
     THEN SubSeq(toks, Min(os), Min(cs))
     ELSE <<>>
\* text.match(/\{[\s\S]*\}/), text.match(/\[[\s\S]*\]/): the first opening
\* delimiter, and everything up to the last closing one.
GreedyMatch(toks, open, close) ==
  LET os == Positions(toks, open)
      cs == Positions(toks, close)
  IN IF os # {} /\ cs # {} /\ Min(os) < Max(cs)
     THEN SubSeq(toks, Min(os), Max(cs))
     ELSE <<>>

\* x.length of a decoded value
LengthOf(v) ==
  CASE v.t = "array" -> Num(Len(v.items))
    [] v.t = "string" -> Num(IF v.s = "" THEN 0 ELSE 4)
    [] OTHER -> Undefined

\* parsedResponse.summary, parsedResponse.cards (undefined on an array)
SummaryOf(v) == IF v.t = "object" THEN v.summary ELSE Undefined
CardsOf(v) == IF v.t = "object" THEN v.cards ELSE Undefined

Failed(error) ==
  [status |-> "failed", error |-> error, summary |-> Null, recommendations |-> Arr(<<>>)]
Parsed(summary, recommendations) ==
  [status |-> "parsed", error |-> "", summary |-> summary,
   recommendations |-> recommendations]

\* The parsing of the older variant: only the bracket-delimited part is looked
\* for, and there is no summary.
ParseAnswer_ArrayOnly(toks) ==
  LET jsonArrayMatch == GreedyMatch(toks, "[", "]")
  IN IF jsonArrayMatch # <<>>
     THEN LET p == JSONParse(jsonArrayMatch)
          IN IF p.throws THEN Failed("Failed to parse LLM response")
             ELSE Parsed(Null, p.value)
     ELSE Failed("LLM response did not contain valid JSON")

\* The parsing without its own catch block: a SyntaxError of JSON.parse reaches
\* the catch block of the inference call.
ParseAnswer_NoCatch(toks) ==
  LET jsonObjectMatch == GreedyMatch(toks, "{", "}")
      jsonArrayMatch == GreedyMatch(toks, "[", "]")
  IN IF jsonObjectMatch # <<>>
     THEN LET p == JSONParse(jsonObjectMatch)
          IN IF p.throws THEN Failed("Failed to query LLM service")
             ELSE IF Truthy(SummaryOf(p.value)) /\ Truthy(CardsOf(p.value))
                  THEN Parsed(SummaryOf(p.value), CardsOf(p.value))
             ELSE IF p.value.t = "array" THEN Parsed(Null, p.value)
             ELSE Failed("LLM response structure is unexpected")
     ELSE IF jsonArrayMatch # <<>>
          THEN LET p == JSONParse(jsonArrayMatch)
               IN IF p.throws THEN Failed("Failed to query LLM service")
                  ELSE Parsed(Null, p.value)
          ELSE Failed("LLM response did not contain valid JSON")

\* The bracket-delimited part is looked for first, the brace-delimited part
\* only when there is none.
ParseAnswer_ArrayFirst(toks) ==
  LET jsonObjectMatch == GreedyMatch(toks, "{", "}")
      jsonArrayMatch == GreedyMatch(toks, "[", "]")
  IN IF jsonArrayMatch # <<>>
     THEN LET p == JSONParse(jsonArrayMatch)
          IN IF p.throws THEN Failed("Failed to parse LLM response")
             ELSE Parsed(Null, p.value)
     ELSE IF jsonObjectMatch # <<>>
     THEN LET p == JSONParse(jsonObjectMatch)
          IN IF p.throws THEN Failed("Failed to parse LLM response")
             ELSE IF Truthy(SummaryOf(p.value)) /\ Truthy(CardsOf(p.value))
                  THEN Parsed(SummaryOf(p.value), CardsOf(p.value))
             ELSE IF p.value.t = "array" THEN Parsed(Null, p.value)
             ELSE Failed("LLM response structure is unexpected")
     ELSE Failed("LLM response did not contain valid JSON")

\* The object is accepted when it has a summary or cards: || in place of &&.
ParseAnswer_EitherField(toks) ==
  LET jsonObjectMatch == GreedyMatch(toks, "{", "}")
      jsonArrayMatch == GreedyMatch(toks, "[", "]")
  IN IF jsonObjectMatch # <<>>
     THEN LET p == JSONParse(jsonObjectMatch)
          IN IF p.throws THEN Failed("Failed to parse LLM response")
             ELSE IF Truthy(SummaryOf(p.value)) \/ Truthy(CardsOf(p.value))
                  THEN Parsed(SummaryOf(p.value), CardsOf(p.value))
             ELSE IF p.value.t = "array" THEN Parsed(Null, p.value)
             ELSE Failed("LLM response structure is unexpected")
     ELSE IF jsonArrayMatch # <<>>
          THEN LET p == JSONParse(jsonArrayMatch)
               IN IF p.throws THEN Failed("Failed to parse LLM response")
                  ELSE Parsed(Null, p.value)
          ELSE Failed("LLM response did not contain valid JSON")

\* generate, lines 366-422: the inner try block over the answer text.
ParseAnswer(toks) ==
  LET jsonObjectMatch == GreedyMatch(toks, "{", "}")
      jsonArrayMatch == GreedyMatch(toks, "[", "]")
  IN IF jsonObjectMatch # <<>>
     THEN LET p == JSONParse(jsonObjectMatch)
          IN IF p.throws THEN Failed("Failed to parse LLM response")
             ELSE IF Truthy(SummaryOf(p.value)) /\ Truthy(CardsOf(p.value))
                  THEN Parsed(SummaryOf(p.value), CardsOf(p.value))
             ELSE IF p.value.t = "array" THEN Parsed(Null, p.value)
             ELSE Failed("LLM response structure is unexpected")
     ELSE IF jsonArrayMatch # <<>>
          THEN LET p == JSONParse(jsonArrayMatch)
               IN IF p.throws THEN Failed("Failed to parse LLM response")
                  ELSE Parsed(Null, p.value)
          ELSE Failed("LLM response did not contain valid JSON")

\* An inference reply: the call threw, or it returned response.data.
Threw == [t |-> "throw"]
ReplyObj(response, answer) == [t |-> "object", response |-> response, answer |-> answer]
ResponseOf(d) == IF d.t = "object" THEN d.response ELSE Undefined
AnswerOf(d) == IF d.t = "object" THEN d.answer ELSE Undefined

\* The llmError catch block without its return: the task goes on to build a
\* record from the initial values of summary and recommendations.
HandleReply_FallThrough(reply) ==
  IF reply.t = "throw" THEN Parsed(Null, Arr(<<>>))
  ELSE IF ~HasProps(reply) THEN Failed("Failed to query LLM service")
  ELSE LET answerField == Or(ResponseOf(reply), AnswerOf(reply))
       IN IF ~Truthy(answerField) THEN Failed("Unexpected LLM response format")
          ELSE IF answerField.t # "text" THEN Failed("Failed to query LLM service")
          ELSE ParseAnswer(answerField.toks)

\* generate, lines 353-440: the outer try block, from the settled queryLLM call
\* to the value of (summary, recommendations) or the failure written to the job.
HandleReply(reply) ==
  IF reply.t = "throw" THEN Failed("Failed to query LLM service")
  ELSE IF ~HasProps(reply) THEN Failed("Failed to query LLM service")
  ELSE LET answerField == Or(ResponseOf(reply), AnswerOf(reply))
       IN IF ~Truthy(answerField) THEN Failed("Unexpected LLM response format")
          ELSE IF answerField.t # "text" THEN Failed("Failed to query LLM service")
          ELSE ParseAnswer(answerField.toks)

\* ------------------------------------------------------------------------
\* State
\* ------------------------------------------------------------------------
VARIABLES
  jobs,                     \* the job store: jobId -> entry
  task,                     \* jobId -> the background task of the job
  recommendationHistory,    \* the stored history array
  recommendationIdCounter,
  uploadedFiles,            \* upload.js: the metadata array, as file ids
  fileMeta,                 \* file id -> the metadata object (shared by reference)
  disk,                     \* the files present in the temp directory
  response,                 \* the HTTP response written in the last step, with
                            \* the request it answers
  assigned                  \* history of the ids taken from the counter, in order

vars == <<jobs, task, recommendationHistory, recommendationIdCounter,
          uploadedFiles, fileMeta, disk, response, assigned>>

NoResponse == [route |-> "none", req |-> Undefined, code |-> 0, body |-> Undefined]
Respond(route, req, code, body) ==
  [route |-> route, req |-> req, code |-> code, body |-> body]

\* A job-store entry; a field the object literal does not have is undefined.
JobEntry(status, data, error, pdfFile) ==
  [status |-> status, data |-> data, error |-> error, pdfFile |-> pdfFile]
\* line 299: { status: 'processing', data: null, pdfFile: pdfFile }
ProcessingEntry(pdfFile) == JobEntry("processing", Null, Undefined, pdfFile)
\* A failure entry written without its error description.
FailedEntry_NoError(error) == JobEntry("failed", Undefined, Undefined, Undefined)
\* lines 389, 407, 417, 426, 435: { status: 'failed', error: '...' }
FailedEntry(error) == JobEntry("failed", Undefined, Str(error), Undefined)
\* line 467: { status: 'completed', data: recommendationRecord }
CompletedEntry(record) == JobEntry("completed", record, Undefined, Undefined)

\* The write is not keyed by the job id: it lands on every entry of the store.
SetJob_AnyKey(js, jobId, entry) ==
  [k \in DOMAIN js \cup {jobId} |-> entry]
\* jobs[jobId] = entry
SetJob(js, jobId, entry) ==
  [k \in DOMAIN js \cup {jobId} |-> IF k = jobId THEN entry ELSE js[k]]

\* A job id that is not fresh: every request gets the same token.
randomUUID_Fixed(js) == 1
\* randomUUID(): a token no earlier call returned
randomUUID(js) == Cardinality(DOMAIN js) + 1

Init ==
  /\ jobs = <<>>
  /\ task = <<>>
  /\ recommendationHistory = <<>>
  /\ recommendationIdCounter = 1
  /\ uploadedFiles = <<>>
  /\ fileMeta = <<>>
  /\ disk = {}
  /\ response = NoResponse
  /\ assigned = <<>>

\* ------------------------------------------------------------------------
\* upload.js
\* ------------------------------------------------------------------------
\* uploadedFiles.find(f => f.id === id) / findIndex: 0 when there is none
FileIndex(files, id) ==
  IF \E i \in 1..Len(files) : files[i] = id
  THEN Min({i \in 1..Len(files) : files[i] = id})
  ELSE 0

RemoveAt(seq, i) == SubSeq(seq, 1, i - 1) \o SubSeq(seq, i + 1, Len(seq))

\* POST /upload/pdf
UploadPdf(hasFile) ==
  /\ UNCHANGED <<jobs, task, recommendationHistory, recommendationIdCounter, assigned>>
  /\ IF ~hasFile
     THEN /\ response' = Respond("upload", [hasFile |-> hasFile], 400, Str("No file uploaded"))
          /\ UNCHANGED <<uploadedFiles, fileMeta, disk>>
     ELSE LET fileId == Len(fileMeta) + 1
          IN /\ fileId <= MaxFiles
             /\ fileMeta' = Append(fileMeta, [id |-> fileId, used |-> FALSE])
             /\ uploadedFiles' = Append(uploadedFiles, fileId)
             /\ disk' = disk \cup {fileId}
             /\ response' = Respond("upload", [hasFile |-> hasFile], 200, Ref(fileId))

\* DELETE /upload/files/:id
DeleteFile(id) ==
  /\ UNCHANGED <<jobs, task, recommendationHistory, recommendationIdCounter,
                 fileMeta, assigned>>
  /\ LET fileIndex == FileIndex(uploadedFiles, id)
     IN IF fileIndex = 0
        THEN /\ response' = Respond("delete", [id |-> id], 404, Str("File not found"))
             /\ UNCHANGED <<uploadedFiles, disk>>
        ELSE /\ disk' = disk \ {id}
             /\ uploadedFiles' = RemoveAt(uploadedFiles, fileIndex)
             /\ response' = Respond("delete", [id |-> id], 200, Str("File deleted successfully"))

\* The temp directory is cleaned from outside the process.
Unlink(id) ==
  /\ id \in disk
  /\ disk' = disk \ {id}
  /\ response' = NoResponse
  /\ UNCHANGED <<jobs, task, recommendationHistory, recommendationIdCounter,
                 uploadedFiles, fileMeta, assigned>>

\* ------------------------------------------------------------------------
\* POST /recommendations/generate and its background task
\* ------------------------------------------------------------------------
\* The local variables of one background task, its position (pc) and the
\* operations it has performed so far, in program order (trace).
\*   pc = "extract"  suspended at `await extractTextFromPDF(...)`
\*   pc = "query"    suspended at `await queryLLM(prompt)`
\*   pc = "done"     the async function has returned
\*   pc = "thrown"   the async function has thrown (its promise is rejected and
\*                   nothing handles the rejection).  Where the runtime ends
\*                   the process on an unhandled rejection, the behaviour
\*                   stops there; the module follows the process while it lives.
\* llmResponse is what the await of queryLLM settled with: null before that, the
\* reply data, or Threw when the call threw (llmError).  prompt is the text
\* built at line 343 and sent with the inference request: null before that.
TaskState(pc, filters, pdfFile, pdfText, pdfExtractionError, llmResponse, trace) ==
  [pc |-> pc, filters |-> filters, pdfFile |-> pdfFile, pdfText |-> pdfText,
   pdfExtractionError |-> pdfExtractionError, prompt |-> Null,
   llmResponse |-> llmResponse, trace |-> trace]

\* lines 297-305: the entry is stored, then the 202 response is written
AcceptTrace == <<"jobs[jobId] = processing", "res.status(202)">>

\* The request to the inference endpoint is sent a second time.
PromptAndQuery_Resend(t) ==
  IF BuildThrows(t.filters)
  THEN [t EXCEPT !.pc = "thrown",
                 !.trace = t.trace \o <<"buildRecommendationPrompt">>]
  ELSE [t EXCEPT !.pc = "query",
                 !.prompt = buildRecommendationPrompt(t.filters, t.pdfText),
                 !.trace = t.trace \o
                   <<"buildRecommendationPrompt", "queryLLM", "queryLLM">>]

\* The framing of the prompt follows the presence of a statement file, not the
\* presence of extracted text.
PromptAndQuery_FramedByFile(t) ==
  IF BuildThrows(t.filters)
  THEN [t EXCEPT !.pc = "thrown",
                 !.trace = t.trace \o <<"buildRecommendationPrompt">>]
  ELSE [t EXCEPT !.pc = "query",
                 !.prompt = buildRecommendationPrompt(t.filters,
                              IF t.pdfFile # Null THEN Or(t.pdfText, Str("(no text)"))
                              ELSE t.pdfText),
                 !.trace = t.trace \o <<"buildRecommendationPrompt", "queryLLM">>]

\* lines 340-354: from the end of the extraction step to the await of queryLLM.
\* buildRecommendationPrompt is called outside every try block.
PromptAndQuery(t) ==
  IF BuildThrows(t.filters)
  THEN [t EXCEPT !.pc = "thrown",
                 !.trace = t.trace \o <<"buildRecommendationPrompt">>]
  ELSE [t EXCEPT !.pc = "query",
                 !.prompt = buildRecommendationPrompt(t.filters, t.pdfText),
                 !.trace = t.trace \o <<"buildRecommendationPrompt", "queryLLM">>]

\* The extraction is started but not awaited: the task goes on at once.
StartTask_NoAwait(filters, pdfFile) ==
  LET t == TaskState("start", filters, pdfFile, Null, Null, Null, AcceptTrace)
  IN IF pdfFile # Null
     THEN PromptAndQuery([t EXCEPT !.trace = t.trace \o <<"extractTextFromPDF">>])
     ELSE PromptAndQuery(t)

\* lines 308-338: the task from its start to its first await
StartTask(filters, pdfFile) ==
  LET t == TaskState("start", filters, pdfFile, Null, Null, Null, AcceptTrace)
  IN IF pdfFile # Null
     THEN [t EXCEPT !.pc = "extract",
                    !.trace = t.trace \o <<"extractTextFromPDF">>]
     ELSE PromptAndQuery(t)

\* The fileId form field: 0 stands for a missing or empty field.
FileIdParams == 0..(MaxFiles + 1)

\* The validation without the fs.existsSync check.
FileProblem_NoExistsCheck(fileId, files, dir) ==
  IF fileId = 0 THEN 0
  ELSE IF FileIndex(files, fileId) = 0 THEN 1
  ELSE 0

\* lines 275-295: 1 when uploadedFiles.find returns undefined, 2 when
\* fs.existsSync(pdfFile.path) is false, 0 when the request passes.
FileProblem(fileId, files, dir) ==
  IF fileId = 0 THEN 0
  ELSE IF FileIndex(files, fileId) = 0 THEN 1
  ELSE IF fileId \notin dir THEN 2
  ELSE 0

Generate(filtersText, fileId) ==
  LET filters == ParseFilters(filtersText)
      req == [filters |-> filtersText, fileId |-> fileId]
      problem == FileProblem(fileId, uploadedFiles, disk)
  IN IF problem = 1
     THEN /\ response' = Respond("generate", req, 404,
               [status |-> "failed",
                error |-> "Uploaded PDF file not found. Please upload a PDF first."])
          /\ UNCHANGED <<jobs, task, recommendationHistory, recommendationIdCounter,
                         uploadedFiles, fileMeta, disk, assigned>>
     ELSE IF problem = 2
     THEN /\ response' = Respond("generate", req, 404,
               [status |-> "failed",
                error |-> "PDF file no longer exists in temp directory."])
          /\ UNCHANGED <<jobs, task, recommendationHistory, recommendationIdCounter,
                         uploadedFiles, fileMeta, disk, assigned>>
     ELSE LET jobId == randomUUID(jobs)
              pdfFile == IF fileId = 0 THEN Null ELSE Ref(fileId)
          IN /\ Cardinality(DOMAIN jobs) < MaxJobs
             /\ jobs' = SetJob(jobs, jobId, ProcessingEntry(pdfFile))
             /\ response' = Respond("generate", req, 202,
                  [jobId |-> jobId, status |-> "processing"])
             /\ task' = SetJob(task, jobId, StartTask(filters, pdfFile))
             /\ UNCHANGED <<recommendationHistory, recommendationIdCounter,
                            uploadedFiles, fileMeta, disk, assigned>>

\* What pdf(dataBuffer) does with the bytes read at the start of the task.
PdfOutcomes == {"throws", "empty", "whitespace", "text"}

\* extractTextFromPDF, lines 206-244
extractTextFromPDF(outcome) ==
  CASE outcome = "throws" -> Null
    [] outcome = "empty" -> Null
    [] outcome = "whitespace" -> Null
    [] outcome = "text" -> Str("statement text")

\* The reason of a failed extraction is recorded in every case, also when text
\* was extracted.
ExtractionSettles_AlwaysError(jobId, outcome) ==
  /\ jobId \in DOMAIN task
  /\ task[jobId].pc = "extract"
  /\ LET pdfText == extractTextFromPDF(outcome)
         t == [task[jobId] EXCEPT
                 !.pdfText = pdfText,
                 !.pdfExtractionError = Str("PDF file could not be processed.")]
     IN task' = [task EXCEPT ![jobId] = PromptAndQuery(t)]
  /\ response' = NoResponse
  /\ UNCHANGED <<jobs, recommendationHistory, recommendationIdCounter,
                 uploadedFiles, fileMeta, disk, assigned>>

\* lines 320-335, then 340-354: the extraction settles, the prompt is built and
\* the inference request is sent.
ExtractionSettles(jobId, outcome) ==
  /\ jobId \in DOMAIN task
  /\ task[jobId].pc = "extract"
  /\ LET pdfText == extractTextFromPDF(outcome)
         t == [task[jobId] EXCEPT
                 !.pdfText = pdfText,
                 !.pdfExtractionError =
                    IF ~Truthy(pdfText)
                    THEN Str("PDF file could not be processed.")
                    ELSE Null]
     IN task' = [task EXCEPT ![jobId] = PromptAndQuery(t)]
  /\ response' = NoResponse
  /\ UNCHANGED <<jobs, recommendationHistory, recommendationIdCounter,
                 uploadedFiles, fileMeta, disk, assigned>>

\* new Date(): not before any earlier reading of the clock
LastTime == IF recommendationHistory = <<>> THEN 1
            ELSE Max({recommendationHistory[i].generatedAt :
                        i \in 1..Len(recommendationHistory)})
Now == {n \in {LastTime, LastTime + 1} : n <= MaxTime}

\* The counter is read but not advanced.
CounterAfter_NoIncrement(counter) == counter
\* ++recommendationIdCounter: the id is the value after the increment.
IdTaken_Preincrement(counter) == counter + 1
\* recommendationIdCounter++ : the value of the expression, the value stored
IdTaken(counter) == counter
CounterAfter(counter) == counter + 1

\* The filters are kept in one place for all jobs: the record carries the
\* filters of the latest request.
recommendationRecord_SharedFilters(id, t, summary, recommendations, generatedAt) ==
  [id |-> id,
   filters |-> task[Max(DOMAIN task)].filters,
   pdfFile |->
     IF t.pdfFile # Null
     THEN [fileId |-> t.pdfFile.f,
           extractedText |->
             IF Truthy(t.pdfText) THEN Str(t.pdfText.s \o "...") ELSE Null,
           extractionSuccess |-> Truthy(t.pdfText),
           extractionError |-> t.pdfExtractionError]
     ELSE Null,
   summary |-> summary,
   recommendations |-> recommendations,
   count |-> LengthOf(recommendations),
   generatedAt |-> generatedAt]

\* lines 443-459
recommendationRecord(id, t, summary, recommendations, generatedAt) ==
  [id |-> id,
   filters |-> t.filters,
   pdfFile |->
     IF t.pdfFile # Null
     THEN [fileId |-> t.pdfFile.f,
           extractedText |->
             IF Truthy(t.pdfText) THEN Str(t.pdfText.s \o "...") ELSE Null,
           extractionSuccess |-> Truthy(t.pdfText),
           extractionError |-> t.pdfExtractionError]
     ELSE Null,
   summary |-> summary,
   recommendations |-> recommendations,
   count |-> LengthOf(recommendations),
   generatedAt |-> generatedAt]

\* The replies of the inference endpoint that the model draws from.
AnswerTexts ==
  { <<"prose">>,
    <<"prose", "{", "summary:", "str", ",", "cards:", "[", "{", "name:", "str", "}", "]", "}">>,
    <<"{", "summary:", "str", "}", "{", "}">> }

LLMReplies ==
  {Threw, ReplyObj(Undefined, Undefined)} \cup {ReplyObj(Text(a), Undefined) : a \in AnswerTexts}

\* The job entry is written before the record is appended to the history.
CompletionSteps_StoreFirst ==
  <<"parse", "jobs[jobId] = completed", "recommendationHistory.push">>
\* lines 366-470, a reply that parses: the inner try, then line 460
\* (recommendationHistory.push), then line 467 (jobs[jobId] = completed)
CompletionSteps ==
  <<"parse", "recommendationHistory.push", "jobs[jobId] = completed">>

\* lines 361-366: the reply carries an answer text, which the inner try parses
ParseAttempted(reply) ==
  /\ reply.t # "throw"
  /\ HasProps(reply)
  /\ Truthy(Or(ResponseOf(reply), AnswerOf(reply)))
  /\ Or(ResponseOf(reply), AnswerOf(reply)).t = "text"

\* The record is built and appended before the reply is looked at: a job that
\* fails has taken an id and left a record in the history.
LLMSettles_RecordFirst(jobId, reply, generatedAt) ==
  /\ jobId \in DOMAIN task
  /\ task[jobId].pc = "query"
  /\ response' = NoResponse
  /\ LET t == [task[jobId] EXCEPT !.llmResponse = reply]
         o == HandleReply(reply)
         record == recommendationRecord(IdTaken(recommendationIdCounter), t,
                     o.summary, o.recommendations, generatedAt)
     IN /\ recommendationIdCounter' = CounterAfter(recommendationIdCounter)
        /\ assigned' = Append(assigned, record.id)
        /\ recommendationHistory' = Append(recommendationHistory, record)
        /\ jobs' = SetJob(jobs, jobId,
                     IF o.status = "failed" THEN FailedEntry(o.error)
                     ELSE CompletedEntry(record))
        /\ task' = [task EXCEPT ![jobId] =
             [t EXCEPT !.pc = "done",
                       !.trace = t.trace \o
                         <<"recommendationHistory.push">> \o
                         (IF ParseAttempted(reply) THEN <<"parse">> ELSE <<>>) \o
                         (IF o.status = "failed" THEN <<"jobs[jobId] = failed">>
                          ELSE <<"jobs[jobId] = completed">>)]]
        /\ UNCHANGED <<uploadedFiles, fileMeta, disk>>

\* The id of a record is given by the order of submission: the number of the
\* job, not the value of the counter when the job completes.
LLMSettles_IdBySubmission(jobId, reply, generatedAt) ==
  /\ jobId \in DOMAIN task
  /\ task[jobId].pc = "query"
  /\ response' = NoResponse
  /\ LET t == [task[jobId] EXCEPT !.llmResponse = reply]
         o == HandleReply(reply)
     IN IF o.status = "failed"
        THEN /\ jobs' = SetJob(jobs, jobId, FailedEntry(o.error))
             /\ task' = [task EXCEPT ![jobId] =
                  [t EXCEPT !.pc = "done",
                            !.trace = t.trace \o
                              (IF ParseAttempted(reply) THEN <<"parse">> ELSE <<>>) \o
                              <<"jobs[jobId] = failed">>]]
             /\ UNCHANGED <<recommendationHistory, recommendationIdCounter,
                            uploadedFiles, fileMeta, disk, assigned>>
        ELSE LET record == recommendationRecord(jobId, t,
                             o.summary, o.recommendations, generatedAt)
             IN /\ recommendationIdCounter' = CounterAfter(recommendationIdCounter)
                /\ assigned' = Append(assigned, record.id)
                /\ recommendationHistory' = Append(recommendationHistory, record)
                /\ fileMeta' = IF t.pdfFile # Null
                               THEN [fileMeta EXCEPT ![t.pdfFile.f].used = TRUE]
                               ELSE fileMeta
                /\ jobs' = SetJob(jobs, jobId, CompletedEntry(record))
                /\ task' = [task EXCEPT ![jobId] =
                     [t EXCEPT !.pc = "done",
                               !.trace = t.trace \o CompletionSteps]]
                /\ UNCHANGED <<uploadedFiles, disk>>

\* The statement is looked up again when the reply arrives: a job whose file
\* has left the upload list fails.
LLMSettles_NeedsFile(jobId, reply, generatedAt) ==
  /\ jobId \in DOMAIN task
  /\ task[jobId].pc = "query"
  /\ response' = NoResponse
  /\ LET t == [task[jobId] EXCEPT !.llmResponse = reply]
         o == IF t.pdfFile # Null /\ FileIndex(uploadedFiles, t.pdfFile.f) = 0
              THEN Failed("PDF file no longer exists in temp directory.")
              ELSE HandleReply(reply)
     IN IF o.status = "failed"
        THEN /\ jobs' = SetJob(jobs, jobId, FailedEntry(o.error))
             /\ task' = [task EXCEPT ![jobId] =
                  [t EXCEPT !.pc = "done",
                            !.trace = t.trace \o
                              (IF ParseAttempted(reply) THEN <<"parse">> ELSE <<>>) \o
                              <<"jobs[jobId] = failed">>]]
             /\ UNCHANGED <<recommendationHistory, recommendationIdCounter,
                            uploadedFiles, fileMeta, disk, assigned>>
        ELSE LET record == recommendationRecord(IdTaken(recommendationIdCounter), t,
                             o.summary, o.recommendations, generatedAt)
             IN /\ recommendationIdCounter' = CounterAfter(recommendationIdCounter)
                /\ assigned' = Append(assigned, record.id)
                /\ recommendationHistory' = Append(recommendationHistory, record)
                /\ fileMeta' = IF t.pdfFile # Null
                               THEN [fileMeta EXCEPT ![t.pdfFile.f].used = TRUE]
                               ELSE fileMeta
                /\ jobs' = SetJob(jobs, jobId, CompletedEntry(record))
                /\ task' = [task EXCEPT ![jobId] =
                     [t EXCEPT !.pc = "done",
                               !.trace = t.trace \o CompletionSteps]]
                /\ UNCHANGED <<uploadedFiles, disk>>

\* The statement is marked as used when the task ends, also when it ends in a
\* failure.
LLMSettles_MarksOnFailure(jobId, reply, generatedAt) ==
  /\ jobId \in DOMAIN task
  /\ task[jobId].pc = "query"
  /\ response' = NoResponse
  /\ LET t == [task[jobId] EXCEPT !.llmResponse = reply]
         o == HandleReply(reply)
     IN IF o.status = "failed"
        THEN /\ jobs' = SetJob(jobs, jobId, FailedEntry(o.error))
             /\ task' = [task EXCEPT ![jobId] =
                  [t EXCEPT !.pc = "done",
                            !.trace = t.trace \o
                              (IF ParseAttempted(reply) THEN <<"parse">> ELSE <<>>) \o
                              <<"jobs[jobId] = failed">>]]
             /\ fileMeta' = IF t.pdfFile # Null
                            THEN [fileMeta EXCEPT ![t.pdfFile.f].used = TRUE]
                            ELSE fileMeta
             /\ UNCHANGED <<recommendationHistory, recommendationIdCounter,
                            uploadedFiles, disk, assigned>>
        ELSE LET record == recommendationRecord(IdTaken(recommendationIdCounter), t,
                             o.summary, o.recommendations, generatedAt)
             IN /\ recommendationIdCounter' = CounterAfter(recommendationIdCounter)
                /\ assigned' = Append(assigned, record.id)
                /\ recommendationHistory' = Append(recommendationHistory, record)
                /\ fileMeta' = IF t.pdfFile # Null
                               THEN [fileMeta EXCEPT ![t.pdfFile.f].used = TRUE]
                               ELSE fileMeta
                /\ jobs' = SetJob(jobs, jobId, CompletedEntry(record))
                /\ task' = [task EXCEPT ![jobId] =
                     [t EXCEPT !.pc = "done",
                               !.trace = t.trace \o CompletionSteps]]
                /\ UNCHANGED <<uploadedFiles, disk>>

\* lines 353-470: queryLLM settles; the reply is parsed and the job is written
\* to its terminal state.
LLMSettles(jobId, reply, generatedAt) ==
  /\ jobId \in DOMAIN task
  /\ task[jobId].pc = "query"
  /\ response' = NoResponse
  /\ LET t == [task[jobId] EXCEPT !.llmResponse = reply]
         o == HandleReply(reply)
     IN IF o.status = "failed"
        THEN /\ jobs' = SetJob(jobs, jobId, FailedEntry(o.error))
             /\ task' = [task EXCEPT ![jobId] =
                  [t EXCEPT !.pc = "done",
                            !.trace = t.trace \o
                              (IF ParseAttempted(reply) THEN <<"parse">> ELSE <<>>) \o
                              <<"jobs[jobId] = failed">>]]
             /\ UNCHANGED <<recommendationHistory, recommendationIdCounter,
                            uploadedFiles, fileMeta, disk, assigned>>
        ELSE LET record == recommendationRecord(IdTaken(recommendationIdCounter), t,
                             o.summary, o.recommendations, generatedAt)
             IN /\ recommendationIdCounter' = CounterAfter(recommendationIdCounter)
                /\ assigned' = Append(assigned, record.id)
                /\ recommendationHistory' = Append(recommendationHistory, record)
                /\ fileMeta' = IF t.pdfFile # Null
                               THEN [fileMeta EXCEPT ![t.pdfFile.f].used = TRUE]
                               ELSE fileMeta
                /\ jobs' = SetJob(jobs, jobId, CompletedEntry(record))
                /\ task' = [task EXCEPT ![jobId] =
                     [t EXCEPT !.pc = "done",
                               !.trace = t.trace \o CompletionSteps]]
                /\ UNCHANGED <<uploadedFiles, disk>>

\* ------------------------------------------------------------------------
\* GET /recommendations/status/:jobId
\* ------------------------------------------------------------------------
\* Job ids a client may poll: 0 is a token that randomUUID never returned.
PollIds == 0..MaxJobs

\* The lookup treats an entry without a result as missing: if (!job || !job.data)
StatusResponse_NeedsData(js, jobId) ==
  IF jobId \notin DOMAIN js \/ ~Truthy(js[jobId].data)
  THEN Respond("status", [jobId |-> jobId], 404,
         [status |-> "failed", error |-> Str("Job not found"), data |-> Undefined])
  ELSE Respond("status", [jobId |-> jobId], 200,
         [status |-> "completed", error |-> Undefined, data |-> js[jobId].data])

\* An id the store does not know is answered like a job still in progress.
StatusResponse_UnknownIsProcessing(js, jobId) ==
  IF jobId \notin DOMAIN js \/ js[jobId].status = "processing"
  THEN Respond("status", [jobId |-> jobId], 200,
         [status |-> "processing", error |-> Undefined, data |-> Undefined])
  ELSE IF js[jobId].status = "completed"
  THEN Respond("status", [jobId |-> jobId], 200,
         [status |-> "completed", error |-> Undefined, data |-> js[jobId].data])
  ELSE Respond("status", [jobId |-> jobId], 500,
         [status |-> "failed", error |-> Str("Job failed"), data |-> Undefined])

\* lines 486-510
StatusResponse(js, jobId) ==
  IF jobId \notin DOMAIN js
  THEN Respond("status", [jobId |-> jobId], 404,
         [status |-> "failed", error |-> Str("Job not found"), data |-> Undefined])
  ELSE IF js[jobId].status = "completed"
  THEN Respond("status", [jobId |-> jobId], 200,
         [status |-> "completed", error |-> Undefined, data |-> js[jobId].data])
  ELSE IF js[jobId].status = "processing"
  THEN Respond("status", [jobId |-> jobId], 200,
         [status |-> "processing", error |-> Undefined, data |-> Undefined])
  ELSE Respond("status", [jobId |-> jobId], 500,
         [status |-> "failed", error |-> Str("Job failed"), data |-> Undefined])

GetStatus(jobId) ==
  /\ response' = StatusResponse(jobs, jobId)
  /\ UNCHANGED <<jobs, task, recommendationHistory, recommendationIdCounter,
                 uploadedFiles, fileMeta, disk, assigned>>

\* ------------------------------------------------------------------------
\* GET /recommendations/history
\* ------------------------------------------------------------------------
\* Array.prototype.sort with (a, b) => new Date(b.generatedAt) - new
\* Date(a.generatedAt): a stable sort, newest first, of the array itself.
RECURSIVE InsertDesc(_, _)
InsertDesc(sorted, r) ==
  IF sorted = <<>> THEN <<r>>
  ELSE IF Head(sorted).generatedAt >= r.generatedAt
       THEN <<Head(sorted)>> \o InsertDesc(Tail(sorted), r)
       ELSE <<r>> \o sorted

RECURSIVE SortNewestFirst(_)
SortNewestFirst(seq) ==
  IF seq = <<>> THEN <<>>
  ELSE InsertDesc(SortNewestFirst(SubSeq(seq, 1, Len(seq) - 1)), seq[Len(seq)])

\* The limit query parameter after parseInt: a number, or NaN for a text that
\* does not start with a number.  Undefined: the parameter is omitted.
NaN == [t |-> "NaN"]
LimitParams == {Undefined, Num(1)}
DefaultLimit == 50
ParsedLimit(limit) == IF limit = Undefined THEN Num(DefaultLimit) ELSE limit

\* array.slice(0, end)
SliceFromZero(seq, end) ==
  LET e == IF end.t = "NaN" THEN 0
           ELSE IF end.n < 0 THEN Max({0, Len(seq) + end.n})
           ELSE Min({end.n, Len(seq)})
  IN SubSeq(seq, 1, e)

\* splice in place of slice: the stored history is cut down to the page.
GetHistory_Splice(limit) ==
  LET history == SortNewestFirst(recommendationHistory)
      results == SliceFromZero(history, ParsedLimit(limit))
  IN /\ recommendationHistory' = results
     /\ response' = Respond("history", [limit |-> limit], 200,
          [history |-> results, count |-> Len(results), total |-> Len(results)])
     /\ UNCHANGED <<jobs, task, recommendationIdCounter, uploadedFiles, fileMeta,
                    disk, assigned>>

\* lines 519-547
GetHistory(limit) ==
  LET history == SortNewestFirst(recommendationHistory)
      results == SliceFromZero(history, ParsedLimit(limit))
  IN /\ recommendationHistory' = history
     /\ response' = Respond("history", [limit |-> limit], 200,
          [history |-> results, count |-> Len(results), total |-> Len(history)])
     /\ UNCHANGED <<jobs, task, recommendationIdCounter, uploadedFiles, fileMeta,
                    disk, assigned>>

\* ------------------------------------------------------------------------
\* GET /recommendations/:id
\* ------------------------------------------------------------------------
\* The ids a client may ask for; parseInt(id) of the path parameter.
RecordIds == {1, MaxJobs + 1}

\* lines 553-582
GetById(id) ==
  /\ response' =
       IF \E i \in 1..Len(recommendationHistory) : recommendationHistory[i].id = id
       THEN Respond("byId", [id |-> id], 200,
              recommendationHistory[
                Min({i \in 1..Len(recommendationHistory) :
                       recommendationHistory[i].id = id})])
       ELSE Respond("byId", [id |-> id], 404, Str("Recommendation not found"))
  /\ UNCHANGED <<jobs, task, recommendationHistory, recommendationIdCounter,
                 uploadedFiles, fileMeta, disk, assigned>>

\* ------------------------------------------------------------------------
\* POST /recommendations/chat
\* ------------------------------------------------------------------------
ChatMessages == {Str("   "), Str("which card?")}
\* message.trim()
Trim(v) == IF v.s = "   " THEN Str("") ELSE v
\* recommendationData: the summary and the cards of a result
RecData(summary, recommendations) ==
  [t |-> "object", summary |-> summary, recommendations |-> recommendations]
ChatData == {RecData(Str("text"), Undefined)}
\* chatHistory: omitted
ChatHistories == {Undefined}
\* recommendationId: the id of the first record, and an id that no record has
ChatRecordIds == {Num(1), Num(MaxJobs + 1)}
ChatReplies == {Threw, ReplyObj(Undefined, Text(<<"prose">>))}
ChatApology == Text(<<"I apologize">>)

\* A turn of the transcript: { role, content }
Turn(role, content) == [t |-> "object", role |-> Str(role), content |-> Str(content)]
\* A part of the chat prompt, in the order of the text: a heading or a line
\* under it.
Segment(seg, speaker, content) == [seg |-> seg, speaker |-> speaker, content |-> content]
RECURSIVE MapTurns(_)
\* lines 631-632: `${msg.role === 'user' ? 'User' : 'Assistant'}: ${msg.content}`
MapTurns(items) ==
  IF items = <<>> THEN <<>>
  ELSE <<Segment("turn",
                 IF items[1].role = Str("user") THEN "User" ELSE "Assistant",
                 items[1].content)>> \o MapTurns(Tail(items))
\* x?.map(...): undefined for a null or undefined x
Nullish(v) == v.t \in {"undefined", "null"}
\* lines 620-633: map is called on a value that has no such method
ChatPromptThrows(recommendationData, chatHistory) ==
  \/ ~Nullish(recommendationData.recommendations) /\
       recommendationData.recommendations.t # "array"
  \/ ~Nullish(chatHistory) /\ chatHistory.t # "array"
\* lines 620-628: the join of no card is the empty string
cardsContext(recommendationData) ==
  IF Nullish(recommendationData.recommendations) \/
     recommendationData.recommendations.items = <<>>
  THEN Str("No cards available")
  ELSE recommendationData.recommendations
\* The transcript with the newest turn first.
chatContext_NewestFirst(chatHistory) ==
  LET Reverse(s) == [i \in 1..Len(s) |-> s[Len(s) + 1 - i]]
  IN IF Nullish(chatHistory) \/ chatHistory.items = <<>>
     THEN <<Segment("line", "", Str("No previous conversation"))>>
     ELSE Reverse(MapTurns(chatHistory.items))
\* lines 631-633: the join of no turn is the empty string
chatContext(chatHistory) ==
  IF Nullish(chatHistory) \/ chatHistory.items = <<>>
  THEN <<Segment("line", "", Str("No previous conversation"))>>
  ELSE MapTurns(chatHistory.items)
\* lines 636-661
chatPrompt(message, recommendationData, chatHistory) ==
  << Segment("heading", "", Str("RECOMMENDED CARDS CONTEXT:")),
     Segment("line", "Summary", Or(recommendationData.summary, Str("N/A"))),
     Segment("line", "", cardsContext(recommendationData)),
     Segment("heading", "", Str("PREVIOUS CONVERSATION:")) >> \o
  chatContext(chatHistory) \o
  << Segment("heading", "", Str("USER'S CURRENT QUESTION:")),
     Segment("question", "", message),
     Segment("heading", "", Str("INSTRUCTIONS:")) >>

\* The JSON body of a chat response.  queries is not part of the body: it
\* lists the calls of queryLLM made while the request was handled, each with
\* its prompt and with what the call did.
ChatBody(error, reply, queries) ==
  [error |-> error, reply |-> reply, queries |-> queries]
Query(prompt, result) == [prompt |-> prompt, result |-> result]
\* line 676
ChatAnswer(llmResponse) ==
  Or(ResponseOf(llmResponse), Or(AnswerOf(llmResponse), ChatApology))

\* The recommendation is looked up in the history by its id, and the request is
\* refused when there is none.
Chat_LooksUpRecord(recommendationId, message, recommendationData, chatHistory, reply) ==
  LET req == [recommendationId |-> recommendationId, message |-> message,
              recommendationData |-> recommendationData, chatHistory |-> chatHistory]
  IN
  /\ response' =
       IF ~Truthy(message)
       THEN Respond("chat", req, 400,
                    ChatBody(Str("Message is required"), Undefined, <<>>))
       ELSE IF message.t # "string"
       THEN Respond("chat", req, 500,
                    ChatBody(Str("Failed to process chat request"), Undefined, <<>>))
       ELSE IF ~Truthy(Trim(message))
       THEN Respond("chat", req, 400,
                    ChatBody(Str("Message is required"), Undefined, <<>>))
       ELSE IF ~Truthy(recommendationData)
       THEN Respond("chat", req, 400,
                    ChatBody(Str("Recommendation data is required"), Undefined, <<>>))
       ELSE IF recommendationId.t # "number" \/
               \A i \in 1..Len(recommendationHistory) :
                  recommendationHistory[i].id # recommendationId.n
       THEN Respond("chat", req, 404,
                    ChatBody(Str("Recommendation not found"), Undefined, <<>>))
       ELSE IF ChatPromptThrows(recommendationData, chatHistory)
       THEN Respond("chat", req, 500,
                    ChatBody(Str("Failed to process chat request"), Undefined, <<>>))
       ELSE LET queries ==
                  <<Query(chatPrompt(message, recommendationData, chatHistory), reply)>>
            IN IF reply.t = "throw" \/ ~HasProps(reply)
               THEN Respond("chat", req, 500,
                      ChatBody(Str("Failed to process chat request"), Undefined, queries))
               ELSE Respond("chat", req, 200,
                      ChatBody(Undefined, ChatAnswer(reply), queries))
  /\ UNCHANGED <<jobs, task, recommendationHistory, recommendationIdCounter,
                 uploadedFiles, fileMeta, disk, assigned>>

\* lines 600-694.  The handler reads and writes no variable of the module
\* between its await and its response, so the two turns are one step here.
\* reply is what queryLLM does when it is called: it throws, or it returns the
\* body of the endpoint's answer.  recommendationId is only written to the log.
Chat(recommendationId, message, recommendationData, chatHistory, reply) ==
  LET req == [recommendationId |-> recommendationId, message |-> message,
              recommendationData |-> recommendationData, chatHistory |-> chatHistory]
  IN
  /\ response' =
       IF ~Truthy(message)
       THEN Respond("chat", req, 400,
                    ChatBody(Str("Message is required"), Undefined, <<>>))
       ELSE IF message.t # "string"
       THEN Respond("chat", req, 500,
                    ChatBody(Str("Failed to process chat request"), Undefined, <<>>))
       ELSE IF ~Truthy(Trim(message))
       THEN Respond("chat", req, 400,
                    ChatBody(Str("Message is required"), Undefined, <<>>))
       ELSE IF ~Truthy(recommendationData)
       THEN Respond("chat", req, 400,
                    ChatBody(Str("Recommendation data is required"), Undefined, <<>>))
       ELSE IF ChatPromptThrows(recommendationData, chatHistory)
       THEN Respond("chat", req, 500,
                    ChatBody(Str("Failed to process chat request"), Undefined, <<>>))
       ELSE LET queries ==
                  <<Query(chatPrompt(message, recommendationData, chatHistory), reply)>>
            IN IF reply.t = "throw" \/ ~HasProps(reply)
               THEN Respond("chat", req, 500,
                      ChatBody(Str("Failed to process chat request"), Undefined, queries))
               ELSE Respond("chat", req, 200,
                      ChatBody(Undefined, ChatAnswer(reply), queries))
  /\ UNCHANGED <<jobs, task, recommendationHistory, recommendationIdCounter,
                 uploadedFiles, fileMeta, disk, assigned>>

\* ------------------------------------------------------------------------
\* Specification
\* ------------------------------------------------------------------------
TaskStep ==
  \/ \E jobId \in JobIds, outcome \in PdfOutcomes : ExtractionSettles(jobId, outcome)
  \/ \E jobId \in JobIds, reply \in LLMReplies, generatedAt \in Now :
       LLMSettles(jobId, reply, generatedAt)

Next ==
  \/ \E hasFile \in BOOLEAN : UploadPdf(hasFile)
  \/ \E id \in FileIdParams \ {0} : DeleteFile(id)
  \/ \E id \in FileIds : Unlink(id)
  \/ \E filtersText \in FilterTexts, fileId \in FileIdParams : Generate(filtersText, fileId)
  \/ \E jobId \in JobIds, outcome \in PdfOutcomes : ExtractionSettles(jobId, outcome)
  \/ \E jobId \in JobIds, reply \in LLMReplies, generatedAt \in Now :
       LLMSettles(jobId, reply, generatedAt)
  \/ \E jobId \in PollIds : GetStatus(jobId)
  \/ \E limit \in LimitParams : GetHistory(limit)
  \/ \E id \in RecordIds : GetById(id)
  \/ \E recommendationId \in ChatRecordIds, message \in ChatMessages,
        recommendationData \in ChatData, chatHistory \in ChatHistories,
        reply \in ChatReplies :
       Chat(recommendationId, message, recommendationData, chatHistory, reply)

Spec == Init /\ [][Next]_vars

\* Every I/O call eventually returns or throws: a task suspended at an await is
\* eventually resumed.
FairSpec == Spec /\ WF_vars(TaskStep)

\* ------------------------------------------------------------------------
\* Properties
\* ------------------------------------------------------------------------
Terminal == {"completed", "failed"}
Stopped == {"done", "thrown"}
TerminalWrites == {"jobs[jobId] = completed", "jobs[jobId] = failed"}
PipelineSteps ==
  {"extractTextFromPDF", "buildRecommendationPrompt", "queryLLM", "parse",
   "recommendationHistory.push", "jobs[jobId] = completed", "jobs[jobId] = failed"}
Count(seq, S) == Cardinality({i \in 1..Len(seq) : seq[i] \in S})
FirstIndex(seq, e) ==
  IF \E i \in 1..Len(seq) : seq[i] = e
  THEN Min({i \in 1..Len(seq) : seq[i] = e})
  ELSE 0
\* The job ids that a 202 response has carried
Returned == {j \in DOMAIN task : FirstIndex(task[j].trace, "res.status(202)") # 0}
\* The fileId names no entry of the upload list, or a file that is not on disk
BadFileRef(fileId) ==
  /\ fileId # 0
  /\ \/ \A i \in 1..Len(uploadedFiles) : uploadedFiles[i] # fileId
     \/ fileId \notin disk
\* The filters field is present and is not valid JSON
Malformed(text) == Truthy(text) /\ JSONParseFilters(text).throws

\* C1: every job reaches 'completed' or 'failed' once each I/O call has
\* settled: a job whose background task has stopped (returned or thrown) is
\* not left in 'processing'.
C1_NoJobLeftProcessing ==
  \A j \in DOMAIN jobs :
    task[j].pc \in Stopped => jobs[j].status \in Terminal

\* C2: terminal states are final: an entry whose status is 'completed' or
\* 'failed' is never changed by any step, and no task writes a terminal state
\* more than once.
C2_TerminalFinal ==
  [][\A j \in DOMAIN jobs :
       jobs[j].status \in Terminal =>
         /\ j \in DOMAIN jobs'
         /\ jobs'[j] = jobs[j]
         /\ Count(task'[j].trace, TerminalWrites) = 1]_vars

C2_Witness ==
  /\ \E j \in DOMAIN jobs : jobs[j].status = "completed"
  /\ \E j \in DOMAIN jobs : jobs[j].status = "failed"
  /\ response.route \in {"status", "history", "chat", "byId"}

\* C3: an entry carries a non-null result (data) if and only if its status is
\* 'completed', and an error description if and only if its status is
\* 'failed'; a 'processing' entry has neither.
C3_PayloadMatchesStatus ==
  \A j \in DOMAIN jobs :
    /\ jobs[j].status \in {"processing", "completed", "failed"}
    /\ (jobs[j].data \notin {Null, Undefined}) <=> (jobs[j].status = "completed")
    /\ (jobs[j].error # Undefined) <=> (jobs[j].status = "failed")

C3_Witness ==
  /\ 2 \in DOMAIN jobs
  /\ jobs[1].status = "failed"
  /\ jobs[2].status = "completed"

\* C4: the 'processing' entry is stored before the 202 response is written,
\* the response is written before any pipeline step of the job starts, and a
\* status poll for a job id that a 202 response carried never answers
\* not-found.
C4_StoredBeforeResponse ==
  /\ \A j \in DOMAIN task :
       /\ j \in DOMAIN jobs
       /\ FirstIndex(task[j].trace, "jobs[jobId] = processing") = 1
       /\ FirstIndex(task[j].trace, "res.status(202)") = 2
       /\ \A i \in 3..Len(task[j].trace) : task[j].trace[i] \in PipelineSteps
  /\ Returned \subseteq DOMAIN jobs
  /\ (response.route = "generate" /\ response.code = 202) =>
       response.body.jobId \in DOMAIN jobs
  /\ (response.route = "status" /\ response.req.jobId \in Returned) =>
       response.code # 404

C4_Witness ==
  /\ response.route = "status"
  /\ response.req.jobId \in Returned
  /\ response.body.status = "processing"
  /\ \E j \in DOMAIN jobs : jobs[j].status \in Terminal

\* C5: generation ids are assigned once each, never reused and strictly
\* increasing in order of assignment; no two history records share an id.
C5_IdsUniqueIncreasing ==
  /\ \A i, k \in 1..Len(assigned) : i < k => assigned[i] < assigned[k]
  /\ \A i \in 1..Len(assigned) : assigned[i] < recommendationIdCounter
  /\ \A i, k \in 1..Len(recommendationHistory) :
       i # k => recommendationHistory[i].id # recommendationHistory[k].id
  /\ {recommendationHistory[i].id : i \in 1..Len(recommendationHistory)} =
       {assigned[i] : i \in 1..Len(assigned)}

\* two tasks interleave: the job submitted second completes first
C5_Witness ==
  /\ 2 \in DOMAIN jobs
  /\ jobs[1].status = "completed" /\ jobs[2].status = "completed"
  /\ jobs[1].data.id = 2 /\ jobs[2].data.id = 1

\* C6: a generation request whose fileId matches no uploaded file, or whose
\* file is no longer on disk, is answered 404 and changes neither the job
\* store, nor the history, nor the id counter.
C6_BadFileRejected ==
  [][(/\ response'.route = "generate"
      /\ BadFileRef(response'.req.fileId)) =>
       /\ response'.code = 404
       /\ jobs' = jobs
       /\ task' = task
       /\ recommendationHistory' = recommendationHistory
       /\ recommendationIdCounter' = recommendationIdCounter]_vars

\* the file is in the upload list but gone from the temp directory, and jobs exist
C6_Witness ==
  /\ response.route = "generate"
  /\ response.code = 404
  /\ \E i \in 1..Len(uploadedFiles) : uploadedFiles[i] = response.req.fileId
  /\ response.req.fileId \notin disk
  /\ jobs # <<>>

\* C7 (as claimed): a generation request whose filters field is not valid JSON
\* is rejected and creates no job.
C7_MalformedRejected ==
  (response.route = "generate" /\ Malformed(response.req.filters)) =>
    response.code # 202

\* C7 (amended): a generation request whose filters field is not valid JSON is
\* not rejected for that reason; its filters become the empty filter set and
\* it is handled like a request without filters: 404 if its fileId fails the
\* file validation, else a 'processing' job is created and returned with 202.
C7_MalformedBecomesEmpty ==
  (response.route = "generate" /\ Malformed(response.req.filters)) =>
    IF BadFileRef(response.req.fileId)
    THEN response.code = 404
    ELSE /\ response.code = 202
         /\ response.body.jobId \in DOMAIN jobs
         /\ jobs[response.body.jobId].status = "processing"
         /\ task[response.body.jobId].filters = EmptyFilters

C7_Witness ==
  /\ response.route = "generate"
  /\ Malformed(response.req.filters)
  /\ response.code = 202
  /\ task[response.body.jobId].pc = "query"

\* C8: extraction failure never fails a job: for every job with a file
\* reference, once the extraction step has settled (whatever its outcome) the
\* task has gone on to build the prompt and to send the inference request, and
\* a job is written 'failed' only after its inference request.
C8_ExtractionNeverStopsJob ==
  \A j \in DOMAIN task :
    /\ (task[j].pdfFile # Null /\ task[j].pc # "extract") =>
         /\ FirstIndex(task[j].trace, "buildRecommendationPrompt") # 0
         /\ FirstIndex(task[j].trace, "queryLLM") # 0
    /\ jobs[j].status = "failed" => FirstIndex(task[j].trace, "queryLLM") # 0

\* C9: if the inference call of a job fails, the job becomes 'failed' with a
\* non-empty reason in its entry, and nothing is appended to the history.
C9_InferenceFailureFailsJob ==
  [][\A j \in DOMAIN task :
       (task[j].pc = "query" /\ task'[j].llmResponse = Threw) =>
         /\ jobs'[j].status = "failed"
         /\ Truthy(jobs'[j].error)
         /\ recommendationHistory' = recommendationHistory
         /\ recommendationIdCounter' = recommendationIdCounter]_vars

C9_Witness ==
  \E j \in DOMAIN task :
    /\ task[j].llmResponse = Threw
    /\ jobs[j].status = "failed"
    /\ recommendationHistory # <<>>

\* C10: a status poll of a 'failed' job answers with the error description
\* recorded in the job entry.
C10_PollReturnsReason ==
  (/\ response.route = "status"
   /\ response.req.jobId \in DOMAIN jobs
   /\ jobs[response.req.jobId].status = "failed") =>
    response.body.error = jobs[response.req.jobId].error

\* ------------------------------------------------------------------------
\* The parsing of the answer text, over a wider set of answers
\* ------------------------------------------------------------------------
MaxItems == 2

\* The card objects an answer lists; several kinds, so that their order shows.
Items ==
  { JsonObj(Undefined, Undefined, Str("text")),
    JsonObj(Undefined, Undefined, Num(7)),
    JsonObj(Undefined, Undefined, Str("")) }
ItemLists == UNION {[1..n -> Items] : n \in 0..MaxItems}

\* The JSON text of a value, as the inference service writes it.
RECURSIVE JsonText(_)
RECURSIVE JoinTexts(_)
JsonText(v) ==
  CASE v.t = "string" -> IF v.s = "" THEN <<"empty">> ELSE <<"str">>
    [] v.t = "number" -> <<"num">>
    [] v.t = "array" -> <<"[">> \o JoinTexts(v.items) \o <<"]">>
    [] v.t = "object" ->
         LET member(key, x) == IF x = Undefined THEN <<>> ELSE <<<<key>> \o JsonText(x)>>
             ms == member("summary:", v.summary) \o member("cards:", v.cards) \o
                   member("name:", v.name)
             RECURSIVE joined(_)
             joined(m) == IF m = <<>> THEN <<>>
                          ELSE IF Len(m) = 1 THEN m[1]
                          ELSE m[1] \o <<",">> \o joined(Tail(m))
         IN <<"{">> \o joined(ms) \o <<"}">>
JoinTexts(items) ==
  IF Len(items) = 0 THEN <<>>
  ELSE IF Len(items) = 1 THEN JsonText(items[1])
  ELSE JsonText(items[1]) \o <<",">> \o
       JoinTexts([i \in 1..(Len(items) - 1) |-> items[i + 1]])

\* {"summary": "...", "cards": [...]} and [...]
PrimaryAnswer(items) == JsonText(JsonObj(Str("text"), Arr(items), Undefined))
BareArrayAnswer(items) == JsonText(Arr(items))

OtherAnswers ==
  { <<"prose">>,
    <<"prose", "{", "summary:", "str">>,
    <<"}", "prose", "{">>,
    <<"{", "str", "}">>,
    <<"[", "str", ",", "]">>,
    <<"[", "str", ",", "num", "]">>,
    <<"prose", "[", "prose", "]">>,
    <<"{", "}">>,
    <<"{", "summary:", "empty", ",", "cards:", "[", "]", "}">>,
    <<"{", "summary:", "str", ",", "cards:", "str", "}">>,
    <<"{", "summary:", "str", ",", "cards:", "num", "}">>,
    <<"{", "summary:", "str", ",", "cards:", "{", "}", "}">>,
    <<"{", "summary:", "str", "}", "prose", "{", "}">> }

\* A primary-format object followed by a second object, or by prose with a
\* closing brace in it.
TrailingBraceAnswers ==
  {PrimaryAnswer(items) \o PrimaryAnswer(<<>>) : items \in ItemLists} \cup
  {PrimaryAnswer(items) \o <<"prose">> \o PrimaryAnswer(items) : items \in ItemLists} \cup
  {PrimaryAnswer(items) \o <<"prose", "}">> : items \in ItemLists} \cup
  {PrimaryAnswer(items) \o <<"prose", "}", "prose">> : items \in ItemLists}

\* An object with only one of summary and cards, or with an empty summary.
PartialAnswers ==
  {JsonText(JsonObj(Str(""), Arr(items), Undefined)) : items \in ItemLists} \cup
  {JsonText(JsonObj(Undefined, Arr(items), Undefined)) : items \in ItemLists} \cup
  {JsonText(JsonObj(Str("text"), Undefined, Undefined))}

ParseAnswers ==
  TrailingBraceAnswers \cup PartialAnswers \cup
  {PrimaryAnswer(items) : items \in ItemLists} \cup
  {BareArrayAnswer(items) : items \in ItemLists} \cup
  {<<"prose">> \o PrimaryAnswer(items) \o <<"prose">> : items \in ItemLists} \cup
  {PrimaryAnswer(items) \o <<"prose">> : items \in ItemLists} \cup
  {<<"prose">> \o PrimaryAnswer(items) : items \in ItemLists} \cup
  {<<"prose">> \o BareArrayAnswer(items) : items \in ItemLists} \cup
  OtherAnswers

\* The replies that carry their answer text under the alias, under both names,
\* or under neither; null is the body of an answer that is the JSON text null.
AliasReplies ==
  { Null,
    ReplyObj(Text(<<>>), Undefined),
    ReplyObj(Text(<<>>), Text(<<>>)),
    ReplyObj(Undefined, Text(<<"prose">>)),
    ReplyObj(Undefined, Text(PrimaryAnswer(<<>>))),
    ReplyObj(Text(<<>>), Text(PrimaryAnswer(<<JsonObj(Undefined, Undefined, Num(7))>>))),
    ReplyObj(Text(PrimaryAnswer(<<>>)),
             Text(PrimaryAnswer(<<JsonObj(Undefined, Undefined, Num(7))>>))),
    ReplyObj(Text(<<"prose">>), Text(PrimaryAnswer(<<>>))) }

\* The call throws, its reply has no answer field, or it carries an answer text.
ParseReplies ==
  {Threw, ReplyObj(Undefined, Undefined)} \cup
  {ReplyObj(Text(a), Undefined) : a \in ParseAnswers} \cup
  AliasReplies

\* One request without filters and without a statement, and the reply of the
\* inference service to it.
ParseNext ==
  \/ jobs = <<>> /\ Generate(Undefined, 0)
  \/ \E jobId \in JobIds, reply \in ParseReplies, generatedAt \in Now :
       LLMSettles(jobId, reply, generatedAt)

ParseSpec == Init /\ [][ParseNext]_vars

\* The answer text that the inference call of job j returned; <<>> when it
\* has returned none.
AnswerOfJob(j) ==
  LET r == task[j].llmResponse
  IN IF r.t = "object" /\ r.response.t = "text" THEN r.response.toks ELSE <<>>
HasDelimited(toks, open, close) ==
  \E i, k \in 1..Len(toks) : i < k /\ toks[i] = open /\ toks[k] = close
\* The part of the text that is handed to JSON.parse
Extracted(toks) ==
  IF HasDelimited(toks, "{", "}") THEN GreedyMatch(toks, "{", "}")
  ELSE GreedyMatch(toks, "[", "]")
Completed == {j \in DOMAIN jobs : jobs[j].status = "completed"}

\* C11: when the answer text is only a bare JSON array of N >= 1 item objects,
\* the job completes with exactly those N items as its recommendations, with
\* count N and with a null summary.
C11_BareArrayCompletes ==
  \A j \in DOMAIN task : \A items \in ItemLists :
    (Len(items) >= 1 /\ AnswerOfJob(j) = BareArrayAnswer(items)) =>
      /\ jobs[j].status = "completed"
      /\ jobs[j].data.recommendations = Arr(items)
      /\ jobs[j].data.count = Num(Len(items))
      /\ jobs[j].data.summary = Null

\* C12: when the answer text is a JSON object with a non-empty summary string
\* and a cards array of N >= 0 items, the job completes with that summary,
\* with exactly those N items in the same order, and with count N.
C12_PrimaryCompletes ==
  \A j \in DOMAIN task : \A items \in ItemLists :
    AnswerOfJob(j) = PrimaryAnswer(items) =>
      /\ jobs[j].status = "completed"
      /\ jobs[j].data.summary = Str("text")
      /\ jobs[j].data.recommendations = Arr(items)
      /\ jobs[j].data.count = Num(Len(items))

\* a job completed from two different cards
C12_Witness ==
  /\ 1 \in DOMAIN jobs
  /\ AnswerOfJob(1) = PrimaryAnswer(<<JsonObj(Undefined, Undefined, Num(7)),
                                      JsonObj(Undefined, Undefined, Str("text"))>>)
  /\ jobs[1].status = "completed"
  /\ jobs[1].data.recommendations.items[1].name = Num(7)

\* C13: parsing never throws out of the job: once the inference call has
\* returned a non-empty answer text the job is 'completed' or 'failed' and its
\* task has returned.  A text with neither a brace-delimited nor a
\* bracket-delimited part fails the job with 'LLM response did not contain
\* valid JSON'; a delimited part that is not valid JSON fails it with 'Failed
\* to parse LLM response'; a failed job has appended nothing to the history.
C13_ParsingNeverThrows ==
  /\ \A j \in DOMAIN task :
       LET toks == AnswerOfJob(j)
       IN toks # <<>> =>
            /\ task[j].pc = "done"
            /\ jobs[j].status \in Terminal
            /\ (~HasDelimited(toks, "{", "}") /\ ~HasDelimited(toks, "[", "]")) =>
                 /\ jobs[j].status = "failed"
                 /\ jobs[j].error = Str("LLM response did not contain valid JSON")
            /\ ((HasDelimited(toks, "{", "}") \/ HasDelimited(toks, "[", "]")) /\
                JSONParse(Extracted(toks)).throws) =>
                 /\ jobs[j].status = "failed"
                 /\ jobs[j].error = Str("Failed to parse LLM response")
            /\ jobs[j].status = "failed" =>
                 FirstIndex(task[j].trace, "recommendationHistory.push") = 0
  /\ Len(recommendationHistory) = Cardinality(Completed)

\* a job has failed on a brace-delimited part that is not JSON
C13_Witness ==
  /\ 1 \in DOMAIN jobs
  /\ HasDelimited(AnswerOfJob(1), "{", "}")
  /\ jobs[1].error = Str("Failed to parse LLM response")
  /\ task[1].pc = "done"

\* ------------------------------------------------------------------------
\* GET /recommendations/history over a wider set of limits
\* ------------------------------------------------------------------------
\* parseInt of the limit parameter: omitted, not a number, negative, zero,
\* positive.
HistoryLimits == {Undefined, NaN, Num(-1), Num(0), Num(1), Num(2)}

\* The inference call throws, its reply has no answer field, or its answer is
\* prose, a brace-delimited part that is not JSON, an object without summary
\* and cards, or an answer in the primary format.
HistoryReplies ==
  {Threw, ReplyObj(Undefined, Undefined)} \cup
  {ReplyObj(Text(a), Undefined) :
     a \in { <<"prose">>, <<"{", "str", "}">>, <<"{", "}">>,
             PrimaryAnswer(<<>>),
             PrimaryAnswer(<<JsonObj(Undefined, Undefined, Str("text"))>>) }}

\* Requests without filters and without a statement, history requests and
\* status polls.
HistoryNext ==
  \/ Generate(Undefined, 0)
  \/ \E jobId \in JobIds, reply \in HistoryReplies, generatedAt \in Now :
       LLMSettles(jobId, reply, generatedAt)
  \/ \E limit \in HistoryLimits : GetHistory(limit)
  \/ \E jobId \in PollIds : GetStatus(jobId)

HistorySpec == Init /\ [][HistoryNext]_vars

NewestFirst(seq) ==
  \A i, k \in 1..Len(seq) : i < k => seq[i].generatedAt >= seq[k].generatedAt

\* C14: a history request with limit L returns at most L entries for every
\* integer L, negative ones included (none then), newest first; limit 0
\* returns an empty list; without a limit at most 50 entries are returned.
C14_AtMostLimit ==
  response.route = "history" =>
    LET L == response.req.limit
        returned == response.body.history
    IN /\ NewestFirst(returned)
       /\ L = Undefined => Len(returned) <= DefaultLimit
       /\ L.t = "number" => Len(returned) <= Max({0, L.n})
       /\ L = Num(0) => returned = <<>>

\* C15: the history is append-only: the stored sequence is always in append
\* order (the order in which the ids were assigned), whatever requests were
\* served; a history request leaves it as it was.
C15_AppendOrder ==
  \A i, k \in 1..Len(recommendationHistory) :
    i < k => recommendationHistory[i].id < recommendationHistory[k].id

\* ------------------------------------------------------------------------
\* Order of the steps of one job, writers of the stores
\* ------------------------------------------------------------------------
\* C16 (as claimed): within one job the write of 'completed' to the job store
\* happens before the append of its result to the history, and the append is
\* the last step of the job.
C16_TerminalWriteBeforeAppend ==
  \A j \in DOMAIN task :
    jobs[j].status = "completed" =>
      /\ FirstIndex(task[j].trace, "jobs[jobId] = completed") <
           FirstIndex(task[j].trace, "recommendationHistory.push")
      /\ task[j].trace[Len(task[j].trace)] = "recommendationHistory.push"

\* C16 (amended): within one job the append of its result to the history
\* happens before the write of 'completed' to the job store, and that write is
\* the last step of the job; both happen in the same turn, so the result of a
\* job is in the history exactly when its entry is 'completed'.
C16_AppendBeforeTerminalWrite ==
  /\ \A j \in DOMAIN task :
       jobs[j].status = "completed" =>
         LET n == Len(task[j].trace)
         IN /\ task[j].trace[n] = "jobs[jobId] = completed"
            /\ task[j].trace[n - 1] = "recommendationHistory.push"
            /\ Count(task[j].trace, {"recommendationHistory.push"}) = 1
            /\ \E i \in 1..Len(recommendationHistory) :
                 recommendationHistory[i] = jobs[j].data
  /\ \A i \in 1..Len(recommendationHistory) :
       \E j \in DOMAIN jobs :
         jobs[j].status = "completed" /\ jobs[j].data = recommendationHistory[i]

\* one job has completed while another one is still waiting for its answer
C16_Witness ==
  /\ 2 \in DOMAIN jobs
  /\ jobs[2].status = "completed"
  /\ task[1].pc = "query"
  /\ Len(recommendationHistory) = 1

\* The place of a step in the pipeline
Rank(step) ==
  CASE step = "extractTextFromPDF" -> 1
    [] step = "buildRecommendationPrompt" -> 2
    [] step = "queryLLM" -> 3
    [] step = "parse" -> 4
    [] OTHER -> 5
Started(j, step) == FirstIndex(task[j].trace, step) # 0
LastStep(j) == task[j].trace[Len(task[j].trace)]

\* C17: within one job the steps extraction, prompt building, inference call
\* and response parsing start in that order, each at most once and each only
\* after the previous one has finished; while the extraction or the inference
\* call of a job is in progress no other step of that job runs.
C17_StepsInOrder ==
  \A j \in DOMAIN task :
    LET tr == task[j].trace
    IN /\ \A i, k \in 3..Len(tr) : i < k => Rank(tr[i]) <= Rank(tr[k])
       /\ \A step \in {"extractTextFromPDF", "buildRecommendationPrompt",
                       "queryLLM", "parse"} : Count(tr, {step}) <= 1
       /\ Started(j, "extractTextFromPDF") <=> task[j].pdfFile # Null
       /\ (Started(j, "extractTextFromPDF") /\ Started(j, "buildRecommendationPrompt")) =>
            \/ Truthy(task[j].pdfText)
            \/ task[j].pdfExtractionError # Null
       /\ Started(j, "queryLLM") => Started(j, "buildRecommendationPrompt")
       /\ Started(j, "parse") => (Started(j, "queryLLM") /\ task[j].llmResponse # Null)
       /\ task[j].pc = "extract" =>
            (LastStep(j) = "extractTextFromPDF" /\ task[j].pdfText = Null
               /\ task[j].pdfExtractionError = Null)
       /\ task[j].pc = "query" =>
            (LastStep(j) = "queryLLM" /\ task[j].llmResponse = Null)

\* the tasks of two jobs with a statement interleave
C17_Witness ==
  /\ 2 \in DOMAIN task
  /\ task[1].pdfFile # Null /\ task[2].pdfFile # Null
  /\ task[1].pc = "query"
  /\ task[2].pc = "done" /\ Started(2, "parse")
  /\ response.route = "status"

\* C18: one writer per job: an entry of the job store is written only at its
\* creation by the generate handler and afterwards only by the job's own
\* background task; the task of one job never writes the entry of another job,
\* and no request handler (status, history, get-by-id, chat, upload, delete)
\* writes any entry.
C18_OneWriter ==
  [][/\ DOMAIN jobs \subseteq DOMAIN jobs'
     /\ \A j \in DOMAIN jobs' :
          IF j \notin DOMAIN jobs
          THEN /\ response'.route = "generate"
               /\ response'.code = 202
               /\ response'.body.jobId = j
               /\ jobs'[j].status = "processing"
               /\ \A k \in DOMAIN jobs : jobs'[k] = jobs[k]
          ELSE jobs'[j] # jobs[j] =>
                 /\ task[j].pc \in {"extract", "query"}
                 /\ task'[j].pc = "done"
                 /\ response'.route = "none"
                 /\ \A k \in DOMAIN jobs \ {j} :
                      jobs'[k] = jobs[k] /\ task'[k] = task[k]]_vars

\* two jobs in flight at once, one written to its end while the other waits,
\* and a request served in between
C18_Witness ==
  /\ 2 \in DOMAIN jobs
  /\ task[1].pc = "query" /\ jobs[1].status = "processing"
  /\ task[2].pc = "done" /\ jobs[2].status = "failed"
  /\ response.route = "history"

\* C19: only job completion appends to the history: the step that ends a job
\* in 'failed', for whatever reason, leaves the history and the id counter as
\* they were; the step that ends a job in 'completed' appends exactly one
\* record, the job's result, and advances the counter by one; no other step
\* changes the length of the history or the counter.
C19_OnlyCompletionAppends ==
  [][/\ \A j \in DOMAIN jobs :
          (jobs[j].status = "processing" /\ jobs'[j].status # "processing") =>
            IF jobs'[j].status = "failed"
            THEN /\ recommendationHistory' = recommendationHistory
                 /\ recommendationIdCounter' = recommendationIdCounter
            ELSE /\ recommendationHistory' =
                      Append(recommendationHistory, jobs'[j].data)
                 /\ recommendationIdCounter' = recommendationIdCounter + 1
     /\ (\A j \in DOMAIN jobs : jobs'[j].status = jobs[j].status) =>
          /\ Len(recommendationHistory') = Len(recommendationHistory)
          /\ recommendationIdCounter' = recommendationIdCounter]_vars

\* one job has failed on an answer of unexpected structure after another one
\* has completed
C19_Witness ==
  /\ 2 \in DOMAIN jobs
  /\ jobs[1].status = "completed"
  /\ jobs[2].error = Str("LLM response structure is unexpected")
  /\ Len(recommendationHistory) = 1
  /\ recommendationIdCounter = 2

\* C20: the inference call is never retried: during the whole life of a job at
\* most one request is sent to the inference endpoint, and once that request
\* has settled (an answer, an unparseable answer or an error) the task of the
\* job has ended.
C20_NoRetry ==
  \A j \in DOMAIN task :
    /\ Count(task[j].trace, {"queryLLM"}) <= 1
    /\ task[j].llmResponse # Null =>
         /\ Count(task[j].trace, {"queryLLM"}) = 1
         /\ task[j].pc = "done"
         /\ jobs[j].status \in Terminal

\* one inference call has thrown, another has returned prose
C20_Witness ==
  /\ 2 \in DOMAIN task
  /\ task[1].llmResponse = Threw
  /\ jobs[2].error = Str("LLM response did not contain valid JSON")
  /\ task[1].pc = "done" /\ task[2].pc = "done"

PromptFilterTexts ==
  { Undefined,
    Str("{bad json"),
    Str("null"),
    Str("7"),
    Str("\"VISA\""),
    Str("{}"),
    Str("{\"cardTypes\":[\"VISA\"],\"annualFeeRange\":\"0-100\"}"),
    Str("{\"cardTypes\":[\"VISA\",\"Mastercard\"],\"rewardTypes\":[\"Cashback\"]}"),
    Str("{\"cardTypes\":[]}"),
    Str("{\"cardTypes\":\"VISA\"}"),
    Str("{\"cardTypes\":null,\"annualFeeRange\":\"\"}"),
    Str("{\"cardTypes\":5,\"additionalRequirements\":\"no foreign fee\"}"),
    Str("{\"rewardTypes\":\"Cashback\"}"),
    Str("{\"cardTypes\":[\"VISA\"],\"rewardTypes\":\"Cashback\"}"),
    Str("{\"rewardTypes\":[],\"annualFeeRange\":100}") }

\* One request, with or without an uploaded statement, and the steps of its
\* task.
PromptNext ==
  \/ UploadPdf(TRUE)
  \/ \E filtersText \in PromptFilterTexts, fileId \in FileIdParams :
       jobs = <<>> /\ Generate(filtersText, fileId)
  \/ \E jobId \in JobIds, outcome \in PdfOutcomes : ExtractionSettles(jobId, outcome)
  \/ \E jobId \in JobIds, generatedAt \in Now :
       LLMSettles(jobId, ReplyObj(Text(PrimaryAnswer(<<>>)), Undefined), generatedAt)

PromptSpec == Init /\ [][PromptNext]_vars

\* The tasks that have gone through the prompt building step
PromptBuilt == {j \in DOMAIN task : Started(j, "buildRecommendationPrompt")}
IsArray(v) == v.t = "array"
NetworkOf(filters) == IF filters.t = "object" THEN filters.cardTypes ELSE Undefined

\* C22: the prompt builder never throws: for every filters value that the
\* generate endpoint passes to it, the task gets a prompt from it and goes on
\* to the inference call.
C22_PromptBuilderNeverThrows ==
  \A j \in PromptBuilt :
    /\ task[j].pc # "thrown"
    /\ task[j].prompt # Null
    /\ Started(j, "queryLLM")

Prompted == {j \in DOMAIN task : task[j].prompt # Null}
\* The extraction of the job's statement failed: it threw, or gave no text.
ExtractionFailed(j) ==
  task[j].pdfFile # Null /\ task[j].pdfExtractionError # Null
NoDocument(j) == task[j].pdfFile = Null
ExtractedText(j) == task[j].pdfFile # Null /\ Truthy(task[j].pdfText)

\* C24: for the same filters, the prompt of a job whose extraction failed is
\* the prompt of a job submitted without a document, and it differs from the
\* prompt of a job whose extraction gave non-empty text.
C24_SameFramingWithoutText ==
  \A j, k \in Prompted :
    task[j].filters = task[k].filters =>
      /\ (ExtractionFailed(j) /\ NoDocument(k)) =>
            task[j].prompt = task[k].prompt
      /\ (ExtractedText(j) /\ (ExtractionFailed(k) \/ NoDocument(k))) =>
            task[j].prompt # task[k].prompt
\* two jobs with the same filters, one whose extraction failed and one
\* without a document, both past the prompt building step
C24_Witness ==
  \E j, k \in Prompted :
    /\ j # k
    /\ task[j].filters = task[k].filters
    /\ ExtractionFailed(j)
    /\ NoDocument(k)
    /\ task[j].prompt.spending.line = "No spending data provided."

\* ------------------------------------------------------------------------
\* The count of a result
\* ------------------------------------------------------------------------
\* The count of a record is a number, and the number of items when the
\* recommendations are an array.
CountIsLength(record) ==
  /\ record.count.t = "number"
  /\ record.recommendations.t = "array" =>
       record.count.n = Len(record.recommendations.items)

\* C25: in every record of the history and in every completed job's result,
\* the count field equals the length of the recommendations sequence, for
\* every answer the parser accepts.
C25_CountIsLength ==
  /\ \A j \in Completed : CountIsLength(jobs[j].data)
  /\ \A i \in 1..Len(recommendationHistory) :
       CountIsLength(recommendationHistory[i])

\* ------------------------------------------------------------------------
\* The filters of a result
\* ------------------------------------------------------------------------
\* The filters a request submits: the JSON value of its filters field, and the
\* empty filter set when the field is omitted or is not JSON.
Submitted(filtersText) ==
  IF filtersText = Undefined THEN EmptyFilters
  ELSE IF JSONParseFilters(filtersText).throws THEN EmptyFilters
  ELSE JSONParseFilters(filtersText).value

\* C26: the filters field of a completed job's result is exactly the filters
\* submitted with the request that created the job (the empty filter set when
\* none were submitted), whatever other jobs run at the same time: the task of
\* a new job holds the submitted filters, no step changes the filters of a
\* task, and a job is completed with the filters of its own task.
C26_FiltersEcho ==
  [][/\ (response'.route = "generate" /\ response'.code = 202) =>
         /\ response'.body.jobId \notin DOMAIN task
         /\ task'[response'.body.jobId].filters = Submitted(response'.req.filters)
     /\ \A j \in DOMAIN task :
           j \in DOMAIN task' /\ task'[j].filters = task[j].filters
     /\ \A j \in DOMAIN jobs' :
           jobs'[j].status = "completed" =>
             jobs'[j].data.filters = task'[j].filters]_vars
\* two jobs with different filters, completed in the reverse order of their
\* submission
C26_Witness ==
  /\ {1, 2} \subseteq Completed
  /\ jobs[1].data.filters # jobs[2].data.filters
  /\ jobs[1].data.filters = FiltersObj(Arr(<<"VISA">>), Undefined, Str("0-100"), Undefined)
  /\ jobs[2].data.filters = EmptyFilters
  /\ jobs[1].data.id > jobs[2].data.id

\* ------------------------------------------------------------------------
\* The extracted-document summary of a result
\* ------------------------------------------------------------------------
ExtractionSucceeded(doc) ==
  /\ doc.extractionSuccess = TRUE
  /\ doc.extractedText # Null
  /\ doc.extractionError = Null
ExtractionGaveUp(doc) ==
  /\ doc.extractionSuccess = FALSE
  /\ doc.extractedText = Null
  /\ doc.extractionError.t = "string"
  /\ doc.extractionError.s # ""
\* The completed jobs whose result references a statement
WithDocument == {j \in Completed : jobs[j].data.pdfFile # Null}

\* C27: in every completed result that references a document, the
\* extracted-document summary has exactly one of two shapes: extraction
\* succeeded (extractionSuccess true, extractedText non-null, extractionError
\* null) or it failed (extractionSuccess false, extractedText null,
\* extractionError a non-empty reason).
C27_OneShape ==
  \A j \in WithDocument :
    ExtractionSucceeded(jobs[j].data.pdfFile) # ExtractionGaveUp(jobs[j].data.pdfFile)
\* two results that reference a statement, one of each shape
C27_Witness ==
  \E j, k \in WithDocument :
    /\ ExtractionSucceeded(jobs[j].data.pdfFile)
    /\ jobs[j].data.pdfFile.extractedText = Str("statement text...")
    /\ ExtractionGaveUp(jobs[k].data.pdfFile)

\* ------------------------------------------------------------------------
\* POST /recommendations/chat over a wider set of requests
\* ------------------------------------------------------------------------
MaxTurns == 2
Turns == {Turn(role, content) : role \in {"user", "assistant"}, content \in {"hi", "ok"}}
TurnLists == UNION {[1..n -> Turns] : n \in 0..MaxTurns}
\* recommendationId: omitted, or an id (the history is empty)
AllChatRecordIds == {Undefined, Num(1)}
\* message: omitted, empty, whitespace-only, not a string, a question
AllChatMessages == {Undefined, Str(""), Str("   "), Num(5), Str("which card?")}
\* recommendationData: omitted, null, a result without cards, with no card,
\* with one card, with cards that are no array
AllChatData ==
  { Undefined, Null,
    RecData(Str("text"), Undefined),
    RecData(Undefined, Arr(<<>>)),
    RecData(Str("text"), Arr(<<JsonObj(Undefined, Undefined, Str("text"))>>)),
    RecData(Str("text"), Str("none")) }
\* chatHistory: omitted, null, no array, the transcripts of up to MaxTurns turns
AllChatHistories == {Undefined, Null, Str("hi")} \cup {Arr(s) : s \in TurnLists}
\* The call throws, or returns null, or an object with neither, one or both of
\* the answer fields; an answer may be prose or JSON text.
AllChatReplies ==
  { Threw, Null,
    ReplyObj(Undefined, Undefined),
    ReplyObj(Text(<<"prose">>), Undefined),
    ReplyObj(Text(PrimaryAnswer(<<>>)), Undefined),
    ReplyObj(Undefined, Text(<<"str">>)),
    ReplyObj(Text(<<>>), Text(<<"str">>)),
    ReplyObj(Text(<<"prose">>), Text(<<"str">>)) }

\* One chat request.
ChatNext ==
  response = NoResponse /\
  \E recommendationId \in AllChatRecordIds, message \in AllChatMessages,
     recommendationData \in AllChatData, chatHistory \in AllChatHistories,
     reply \in AllChatReplies :
    Chat(recommendationId, message, recommendationData, chatHistory, reply)

ChatSpec == Init /\ [][ChatNext]_vars

ChatAnswered == response.route = "chat"
\* The message is missing or consists of whitespace only.
MissingOrBlank(message) == message \in {Undefined, Null, Str(""), Str("   ")}
Missing(v) == v \in {Undefined, Null}

\* C28: a chat request whose message is missing or whitespace-only, or whose
\* recommendationData is missing, is answered 400 with an error and without any
\* call of the inference endpoint; when the inference call of an accepted
\* request fails, the request is answered with an error and without a reply.
C28_ChatRejects ==
  ChatAnswered =>
    /\ (MissingOrBlank(response.req.message) \/
        Missing(response.req.recommendationData)) =>
         /\ response.code = 400
         /\ response.body.error.t = "string"
         /\ response.body.reply = Undefined
         /\ response.body.queries = <<>>
    /\ \A i \in 1..Len(response.body.queries) :
         response.body.queries[i].result = Threw =>
           /\ response.code = 500
           /\ response.body.error = Str("Failed to process chat request")
           /\ response.body.reply = Undefined
\* The positions of the parts of a kind in a prompt
SegmentsAt(prompt, seg) == {i \in 1..Len(prompt) : prompt[i].seg = seg}
Speaker(turn) == IF turn.role = Str("user") THEN "User" ELSE "Assistant"
\* The prompt holds the turns of the transcript in the order given, each once,
\* and the message after all of them.
TranscriptThenMessage(prompt, chatHistory, message) ==
  LET turns == SelectSeq(prompt, LAMBDA s : s.seg = "turn")
      given == IF chatHistory.t = "array" THEN chatHistory.items ELSE <<>>
  IN /\ Len(turns) = Len(given)
     /\ \A i \in 1..Len(given) :
          /\ turns[i].content = given[i].content
          /\ turns[i].speaker = Speaker(given[i])
     /\ Cardinality(SegmentsAt(prompt, "question")) = 1
     /\ \A q \in SegmentsAt(prompt, "question") :
          /\ prompt[q].content = message
          /\ \A i \in SegmentsAt(prompt, "turn") : i < q
\* The chat requests that were answered with a reply
ChatReplied == ChatAnswered /\ response.code = 200

Replied == {j \in DOMAIN task : task[j].pc = "done" /\ task[j].llmResponse # Threw}
NonEmpty(v) == v.t = "text" /\ v.toks # <<>>
\* The job was completed from the primary-format answer text v.
CompletedFrom(j, v) ==
  \A items \in ItemLists :
    v = Text(PrimaryAnswer(items)) =>
      jobs[j].status = "completed" /\ jobs[j].data.recommendations = Arr(items)
\* The job failed on an answer text without JSON.
FailedOn(j, v) ==
  v = Text(<<"prose">>) =>
    jobs[j].error = Str("LLM response did not contain valid JSON")

\* C30: the answer text of an inference reply is the value of its 'response'
\* field when that is non-empty, otherwise the value of its 'answer' field;
\* when the reply is null or has neither field non-empty, the job ends in
\* 'failed' with the reason 'Unexpected LLM response format', not with the
\* reason of a failed inference call.
C30_AnswerAliases ==
  \A j \in Replied :
    LET r == task[j].llmResponse
    IN IF r = Null \/ (~NonEmpty(r.response) /\ ~NonEmpty(r.answer))
       THEN /\ jobs[j].status = "failed"
            /\ jobs[j].error = Str("Unexpected LLM response format")
       ELSE IF NonEmpty(r.response)
       THEN CompletedFrom(j, r.response) /\ FailedOn(j, r.response)
       ELSE CompletedFrom(j, r.answer) /\ FailedOn(j, r.answer)

\* ------------------------------------------------------------------------
\* The greedy scan for the object of an answer
\* ------------------------------------------------------------------------
Prose == {<<>>, <<"prose">>}
\* The job was completed with the summary and the items of the primary format.
CompletedWith(j, items) ==
  /\ jobs[j].status = "completed"
  /\ jobs[j].data.summary = Str("text")
  /\ jobs[j].data.recommendations = Arr(items)
  /\ jobs[j].data.count = Num(Len(items))
FailedWith(j, error) ==
  jobs[j].status = "failed" /\ jobs[j].error = Str(error)
\* The tasks whose inference call has settled
Settled == {j \in DOMAIN task : task[j].pc = "done"}

\* C31: the parser decodes the text from the first '{' to the last '}'.  One
\* valid primary-format object surrounded by brace-free prose gives the result
\* of the object alone; two separate top-level objects, or a valid object
\* followed by prose that contains a '}', fail the job with 'Failed to parse
\* LLM response': the first object is not used.
C31_GreedyObjectScan ==
  \A j \in Settled : \A items \in ItemLists :
    LET toks == AnswerOfJob(j)
        object == PrimaryAnswer(items)
    IN /\ (\E before, after \in Prose : toks = before \o object \o after) =>
            CompletedWith(j, items)
       /\ (\E second \in ItemLists, between \in Prose :
             toks = object \o between \o PrimaryAnswer(second)) =>
            FailedWith(j, "Failed to parse LLM response")
       /\ (\E after \in Prose : toks = object \o <<"prose", "}">> \o after) =>
            FailedWith(j, "Failed to parse LLM response")
\* a valid object followed by a second one has failed the job
C31_Witness ==
  /\ 1 \in Settled
  /\ AnswerOfJob(1) =
       PrimaryAnswer(<<JsonObj(Undefined, Undefined, Num(7))>>) \o PrimaryAnswer(<<>>)
  /\ FailedWith(1, "Failed to parse LLM response")

\* ------------------------------------------------------------------------
\* The object path and the array fallback
\* ------------------------------------------------------------------------
\* The tasks whose inference reply carried an answer text under 'response'
Answered == {j \in Settled : AnswerOfJob(j) # <<>>}
\* The result of a job completed without a summary: only the array branches
\* (the Array.isArray branch of the object path, the array fallback) give it.
FromArray(j) == jobs[j].status = "completed" /\ jobs[j].data.summary = Null

\* C32: the bracket-delimited array fallback is attempted only when the answer
\* text holds no '{' with a '}' after it.  When there is such a pair the
\* outcome is that of the object path alone: a parse failure, the summary and
\* cards of the decoded object, or 'LLM response structure is unexpected'; the
\* decoded value is never an array, so the Array.isArray branch is never taken.
C32_ObjectPathDecides ==
  \A j \in Answered :
    LET toks == AnswerOfJob(j)
        decoded == JSONParse(Extracted(toks))
    IN /\ HasDelimited(toks, "{", "}") =>
            /\ ~FromArray(j)
            /\ ~FailedWith(j, "LLM response did not contain valid JSON")
            /\ decoded.throws => FailedWith(j, "Failed to parse LLM response")
            /\ ~decoded.throws =>
                 /\ decoded.value.t = "object"
                 /\ IF Truthy(decoded.value.summary) /\ Truthy(decoded.value.cards)
                    THEN /\ jobs[j].status = "completed"
                         /\ jobs[j].data.summary = decoded.value.summary
                         /\ jobs[j].data.recommendations = decoded.value.cards
                    ELSE FailedWith(j, "LLM response structure is unexpected")
       /\ FromArray(j) =>
            /\ ~HasDelimited(toks, "{", "}")
            /\ HasDelimited(toks, "[", "]")
            /\ jobs[j].data.recommendations = decoded.value
\* a bracket-delimited array of one card object is decided by the object path
C32_Witness ==
  /\ 1 \in Answered
  /\ AnswerOfJob(1) = BareArrayAnswer(<<JsonObj(Undefined, Undefined, Str("text"))>>)
  /\ HasDelimited(AnswerOfJob(1), "[", "]")
  /\ FailedWith(1, "LLM response structure is unexpected")

\* ------------------------------------------------------------------------
\* The primary format needs both fields
\* ------------------------------------------------------------------------
\* C33: a decoded object is accepted as primary format only when both its
\* summary and its cards are truthy.  An object whose summary is the empty
\* string or missing, or whose cards is missing, fails the job with 'LLM
\* response structure is unexpected' even when the other field is a valid
\* non-empty value; a non-empty summary with an empty cards array completes
\* the job with count 0.
C33_BothFieldsNeeded ==
  \A j \in Answered :
    LET toks == AnswerOfJob(j)
    IN /\ \A items \in ItemLists :
            (\/ toks = JsonText(JsonObj(Str(""), Arr(items), Undefined))
             \/ toks = JsonText(JsonObj(Undefined, Arr(items), Undefined))) =>
              FailedWith(j, "LLM response structure is unexpected")
       /\ toks = JsonText(JsonObj(Str("text"), Undefined, Undefined)) =>
            FailedWith(j, "LLM response structure is unexpected")
       /\ toks = JsonText(JsonObj(Str("text"), Arr(<<>>), Undefined)) =>
            /\ jobs[j].status = "completed"
            /\ jobs[j].data.summary = Str("text")
            /\ jobs[j].data.recommendations = Arr(<<>>)
            /\ jobs[j].data.count = Num(0)
\* an object with an empty summary and one card has failed the job
C33_Witness ==
  /\ 1 \in Answered
  /\ AnswerOfJob(1) =
       JsonText(JsonObj(Str(""), Arr(<<JsonObj(Undefined, Undefined, Str("text"))>>),
                        Undefined))
  /\ FailedWith(1, "LLM response structure is unexpected")
  /\ recommendationHistory = <<>>

\* ------------------------------------------------------------------------
\* The history and the completed jobs
\* ------------------------------------------------------------------------
HistoryIndexes == 1..Len(recommendationHistory)

\* C34: in every state between two turns of the event loop the history and
\* the completed jobs correspond one to one: the data of each completed job is
\* an entry of the history, each entry of the history is the data of exactly
\* one completed job, and there are as many entries as completed jobs.
C34_HistoryMatchesCompleted ==
  /\ \A j \in Completed :
       \E i \in HistoryIndexes : recommendationHistory[i] = jobs[j].data
  /\ \A i \in HistoryIndexes :
       Cardinality({j \in Completed : jobs[j].data = recommendationHistory[i]}) = 1
  /\ Len(recommendationHistory) = Cardinality(Completed)
\* two completed jobs, after a history request has put the record of the later
\* job first
C34_Witness ==
  /\ Cardinality(Completed) = 2
  /\ Len(recommendationHistory) = 2
  /\ response.route = "history"
  /\ recommendationHistory[1].id > recommendationHistory[2].id
  /\ \E j \in Completed : jobs[j].data = recommendationHistory[2]

\* ------------------------------------------------------------------------
\* Generation ids
\* ------------------------------------------------------------------------
HistoryIds == {recommendationHistory[i].id : i \in HistoryIndexes}

\* C35: generation ids are gap-free: the ids in the history are exactly
\* 1, ..., n for a history of n entries, and the id counter is n + 1; a failed
\* job and a rejected request take no id.
C35_IdsGapFree ==
  /\ HistoryIds = 1..Len(recommendationHistory)
  /\ recommendationIdCounter = Len(recommendationHistory) + 1
\* a failed job, a completed job and a rejected request: one id is taken
C35_Witness ==
  /\ \E j \in DOMAIN jobs : jobs[j].status = "failed"
  /\ \E j \in Completed : jobs[j].data.id = 1
  /\ response.route = "generate"
  /\ response.code = 404
  /\ recommendationIdCounter = 2

\* C36: generation ids follow the order of completion, not of submission: a
\* job that completes gets an id greater than the id of every job completed
\* before it, so of two jobs in flight together the one whose inference reply
\* is processed first has the smaller id, also when it was submitted later.
C36_IdsFollowCompletion ==
  [][\A j \in DOMAIN jobs :
       (jobs[j].status = "processing" /\ jobs'[j].status = "completed") =>
         /\ jobs'[j].data.id = recommendationIdCounter
         /\ \A k \in Completed : jobs[k].data.id < jobs'[j].data.id]_vars
\* the job submitted second has completed first and has the smaller id
C36_Witness ==
  /\ {1, 2} \subseteq Completed
  /\ jobs[2].data.id = 1
  /\ jobs[1].data.id = 2
  /\ FirstIndex(task[1].trace, "queryLLM") > 0

\* ------------------------------------------------------------------------
\* Deleting the statement of a job in progress
\* ------------------------------------------------------------------------
\* The statement of the job is no longer in the upload list.
FileDeleted(j) ==
  task[j].pdfFile # Null /\ FileIndex(uploadedFiles, task[j].pdfFile.f) = 0
\* The tasks that have not ended
Running == {j \in DOMAIN task : task[j].pc \in {"extract", "query"}}

Completes(j) == jobs[j].status = "processing" /\ jobs'[j].status = "completed"
Fails(j) == jobs[j].status = "processing" /\ jobs'[j].status = "failed"
\* A step of the generation pipeline: a generate request or a step of a task.
PipelineStep == response'.route = "generate" \/ task' # task

\* C38: the used flag of an uploaded file becomes true only in the step that
\* completes a job referencing the file, and stays true; a job that fails
\* leaves every flag as it is; the pipeline deletes no file and removes no
\* entry of the upload list: only DELETE /upload/files/:id shortens the list.
C38_UsedOnlyOnCompletion ==
  [][/\ \A f \in DOMAIN fileMeta :
          /\ f \in DOMAIN fileMeta'
          /\ fileMeta[f].used => fileMeta'[f].used
          /\ (~fileMeta[f].used /\ fileMeta'[f].used) =>
               \E j \in DOMAIN jobs : Completes(j) /\ task[j].pdfFile = Ref(f)
     /\ \A j \in DOMAIN jobs :
          /\ Fails(j) => fileMeta' = fileMeta
          /\ (Completes(j) /\ task[j].pdfFile # Null) =>
               fileMeta'[task[j].pdfFile.f].used
     /\ PipelineStep => (uploadedFiles' = uploadedFiles /\ disk' = disk)
     /\ Len(uploadedFiles') < Len(uploadedFiles) => response'.route = "delete"]_vars
\* two jobs on the same statement: the first failed, the second completed, and
\* the file is marked as used
C38_Witness ==
  /\ {1, 2} \subseteq DOMAIN jobs
  /\ jobs[1].status = "failed"
  /\ jobs[2].status = "completed"
  /\ task[1].pdfFile = Ref(1)
  /\ task[2].pdfFile = Ref(1)
  /\ fileMeta[1].used
  /\ uploadedFiles = <<1>>

\* ------------------------------------------------------------------------
\* The frame of POST /recommendations/chat
\* ------------------------------------------------------------------------
\* C39: a chat request, rejected, answered or failed, leaves the job store,
\* the history and the id counter as they are.  Its context comes from the
\* recommendationData of the request alone: every prompt it sends is the one
\* built from the request, it is never answered 'not found', and a request
\* whose inference call returns an object is answered 200 whether or not the
\* history has a record with the recommendationId.
C39_ChatFrame ==
  [][response'.route = "chat" =>
       LET req == response'.req
           queries == response'.body.queries
       IN /\ jobs' = jobs
          /\ task' = task
          /\ recommendationHistory' = recommendationHistory
          /\ recommendationIdCounter' = recommendationIdCounter
          /\ response'.code \in {200, 400, 500}
          /\ \A i \in 1..Len(queries) :
               /\ queries[i].prompt =
                    chatPrompt(req.message, req.recommendationData, req.chatHistory)
               /\ queries[i].result.t = "object" => response'.code = 200]_vars
\* a chat about a recommendation id that the history does not have is answered,
\* while the history has a record and the job store a job
C39_Witness ==
  /\ response.route = "chat"
  /\ response.code = 200
  /\ response.req.recommendationId = Num(MaxJobs + 1)
  /\ recommendationHistory # <<>>
  /\ \A i \in HistoryIndexes : recommendationHistory[i].id # MaxJobs + 1
  /\ response.body.queries # <<>>

====
